---- MODULE Spec2Model ----
(***************************************************************************)
(* Filter composition and error propagation engine of the filters library   *)
(* (src/src/filters/base.py), with the concrete units of                    *)
(* src/filters/simple.py that the checked properties need.                  *)
(*                                                                          *)
(* Objects live in `heap', a sequence of unit records indexed by object     *)
(* id; 0 stands for "no object" (Python None in a reference field).  One    *)
(* action is one public operation of the library; the nested calls an       *)
(* operation makes (apply -> _apply -> _filter -> apply ...) are evaluated  *)
(* by the recursive operators below, which thread the heap, the trace of    *)
(* apply calls and the handler invocations through the call.                *)
(***************************************************************************)
EXTENDS Integers, Sequences, FiniteSets, TLC

VARIABLES heap, last

vars == <<heap, last>>

(***************************************************************************)
(* Bounds                                                                   *)
(***************************************************************************)
MaxUnits == 3

MaxDepth == 2

MaxDeep == 4

MaxLen == 3

MaxAffix == 1

MaxBudget == 6

MaxPicked == 2

(***************************************************************************)
(* Values, keys, handlers                                                   *)
(***************************************************************************)
None == "None"

Values == {None, "", "a", "fe", "ex"}

Keys == {None, "", "k"}

NoHandler == "none"

Diverge == "diverge"

(* Return value of handle_invalid_value for the handlers that return. *)
HandlerRet(hd) == IF hd = "sub" THEN "sub" ELSE None

(* BaseFilter.__init__ *)
NewUnit(kind, arg) ==
  [kind |-> kind, arg |-> arg, _parent |-> 0, _handler |-> NoHandler,
   _key |-> None, _has_errors |-> FALSE, _filters |-> <<>>]

CODE_EXCEPTION == "exception"

templates(code) ==
  CASE code = CODE_EXCEPTION -> "An error occurred while processing this value."
    [] code = "empty" -> "Non-empty value expected."
    [] code = "missing" -> "{key} is required."
    [] code = "wrong_type" -> "{incoming} is not valid (allowed types: {allowed})."
    [] OTHER -> code

(***************************************************************************)
(* Exceptions                                                               *)
(***************************************************************************)
EmptyCtx == [code |-> ""]

NoExc == [type |-> "none", msg |-> "", context |-> EmptyCtx]

Exc(type, msg, ctx) == [type |-> type, msg |-> msg, context |-> ctx]

(* `except Exception' catches everything a call can raise; a call that    *)
(* never returns (type "Hang") is not an exception.                        *)
Catchable(e) == e.type \notin {"none", "Hang"}

(***************************************************************************)
(* Key paths                                                                *)
(***************************************************************************)
parent(h, u) == h[u]._parent

(* The parent links followed from u run into a cycle: the walk of       *)
(* _key_parts (while parent: ...) then never ends.                       *)
RECURSIVE Cyclic(_, _, _)
Cyclic(h, u, seen) ==
  IF u = 0 THEN FALSE
  ELSE IF u \in seen THEN TRUE
  ELSE Cyclic(h, parent(h, u), seen \cup {u})

(* A variant of _key_parts that appends where the code inserts at the    *)
(* front: the segments come out leaf first.                                 *)
RECURSIVE _key_partsLeafFirst(_, _)
_key_partsLeafFirst(h, u) ==
  IF u = 0 THEN <<>>
  ELSE IF h[u]._key # None
  THEN <<h[u]._key>> \o _key_partsLeafFirst(h, h[u]._parent)
  ELSE _key_partsLeafFirst(h, h[u]._parent)

RECURSIVE _key_parts(_, _)
_key_parts(h, u) ==
  IF u = 0 THEN <<>>
  ELSE IF h[u]._key # None THEN _key_parts(h, parent(h, u)) \o <<h[u]._key>>
  ELSE _key_parts(h, parent(h, u))

RECURSIVE Join(_)
Join(parts) ==
  IF parts = <<>> THEN ""
  ELSE IF Len(parts) = 1 THEN parts[1]
  ELSE parts[1] \o "." \o Join(Tail(parts))

_make_key(key_parts) ==
  Join(SelectSeq(key_parts, LAMBDA p : p # None /\ p # ""))

key(h, u) == _make_key(_key_parts(h, u))

sub_key(h, u, sk) == _make_key(_key_parts(h, u) \o <<sk>>)

(***************************************************************************)
(* Handler resolution                                                       *)
(***************************************************************************)
RECURSIVE HandlerWalk(_, _, _)
HandlerWalk(h, u, seen) ==
  IF h[u]._handler # NoHandler THEN h[u]._handler
  ELSE IF parent(h, u) = 0 THEN "raise"
  ELSE IF parent(h, u) \in seen THEN Diverge
  ELSE HandlerWalk(h, parent(h, u), seen \cup {parent(h, u)})

(* A variant of handler that does not ask the parent. *)
handlerOwnOrDefault(h, u) ==
  IF h[u]._handler # NoHandler THEN h[u]._handler ELSE "raise"

handler(h, u) == HandlerWalk(h, u, {u})

(***************************************************************************)
(* String representation                                                    *)
(***************************************************************************)
(* str(idx) for the indices used here *)
StrInt(idx) == CASE idx = 0 -> "0" [] idx = 1 -> "1" [] idx = 2 -> "2" [] OTHER -> "3"

(* The items of the list of keys of a Pick as Python prints them *)
RECURSIVE KeysText(_, _)
KeysText(keys, indexed) ==
  IF keys = <<>> THEN ""
  ELSE (IF indexed THEN StrInt(Head(keys)) ELSE "'" \o Head(keys) \o "'")
       \o (IF Len(keys) = 1 THEN "" ELSE ", " \o KeysText(Tail(keys), indexed))

RECURSIVE Str(_, _)
RECURSIVE StrJoin(_, _)
StrJoin(h, fs) ==
  IF fs = <<>> THEN ""
  ELSE IF Len(fs) = 1 THEN Str(h, fs[1])
  ELSE Str(h, fs[1]) \o " | " \o StrJoin(h, Tail(fs))

Str(h, u) ==
  CASE h[u].kind = "FilterChain" -> "FilterChain(" \o StrJoin(h, h[u]._filters) \o ")"
    [] h[u].kind = "NotEmpty" ->
         IF h[u].arg = "allow_none" THEN "NotEmpty(allow_none=True)"
         ELSE "NotEmpty(allow_none=False)"
    [] h[u].kind = "Item" -> "Item('" \o h[u].arg \o "')"
    [] h[u].kind = "Type" -> "Type(" \o h[u].arg \o ", allow_subclass=True)"
    [] h[u].kind = "Pick" -> "Pick([" \o KeysText(h[u].arg.keys, h[u].arg.indexed) \o "])"
    [] OTHER -> h[u].kind \o "()"

(***************************************************************************)
(* Calls.  A call in progress carries the heap and the log of events; a     *)
(* finished call adds its return value and the exception it raised.         *)
(***************************************************************************)
Ok(S, ret) == [heap |-> S.heap, log |-> S.log, ret |-> ret, exc |-> NoExc]

Raise(S, e) == [heap |-> S.heap, log |-> S.log, ret |-> None, exc |-> e]

St(r) == [heap |-> r.heap, log |-> r.log]

Emit(S, e) == [S EXCEPT !.log = Append(@, e)]

(* BaseInvalidValueHandler.handle_invalid_value of the handler hd: the    *)
(* ExceptionHandler raises a FilterError carrying the context, a          *)
(* collecting handler records the report and returns.  The log notes the  *)
(* unit that reported and the type of the reason it reported for.          *)
handle_invalid_value(S, hd, message, context, u, reason) ==
  LET S1 == Emit(S, [ev |-> "report", unit |-> u, handler |-> hd, reason |-> reason,
                     message |-> message, context |-> context])
  IN IF hd = "raise" THEN Raise(S1, Exc("FilterError", message, context))
     ELSE Ok(S1, HandlerRet(hd))

(* BaseInvalidValueHandler.handle_exception *)
handle_exception(S, hd, message, exc, u) ==
  handle_invalid_value(S, hd, message, exc.context, u, exc.type)

(* BaseFilter._format_message: the template of the code, filled in from   *)
(* the context (and, for Type, the names of the types).                    *)
_format_message(code, context) ==
  CASE code = "missing" -> context.key \o " is required."
    [] code = "wrong_type" ->
         "int is not valid (allowed types: (typing.Mapping, typing.Sequence))."
    [] OTHER -> templates(code)

(* _invalid_value from line 322 on: the flag is set, the context is       *)
(* assembled and the handler is told.                                      *)
Flagged(S, u) == [S EXCEPT !.heap[u]._has_errors = TRUE]

Context(h, u, value, replacement, sk) ==
  [value |-> value, filter |-> Str(h, u), key |-> sub_key(h, u, sk),
   replacement |-> replacement]

(* `return replacement', reached when the handler returned *)
Replaced(r, replacement) == IF r.exc # NoExc THEN r ELSE Ok(St(r), replacement)

Assembled(S, u, hd, value, reason, replacement, sk) ==
  IF Cyclic(S.heap, u, {}) THEN Raise(Flagged(S, u), Exc("Hang", "", EmptyCtx))
  ELSE IF reason.type = "code"
  THEN Replaced(handle_invalid_value(Flagged(S, u), hd,
                  _format_message(reason.msg, Context(S.heap, u, value, replacement, sk)),
                  Context(S.heap, u, value, replacement, sk) @@ [code |-> reason.msg],
                  u, reason.type),
                replacement)
  ELSE Replaced(handle_exception(Flagged(S, u), hd,
                  _format_message(CODE_EXCEPTION, EmptyCtx),
                  [reason EXCEPT !.context =
                     Context(S.heap, u, value, replacement, sk)
                       @@ [code |-> CODE_EXCEPTION,
                           exc |-> <<reason.type, reason.msg>>]], u),
                replacement)

(* _invalid_value once self.handler is known: hd is the handler, or       *)
(* Diverge where looking it up exceeds the recursion limit.                *)
Handled(S, u, hd, value, reason, replacement, sk) ==
  IF hd = Diverge THEN Raise(S, Exc("RecursionError", "", EmptyCtx))
  ELSE IF reason.type = "FilterError"
  THEN handle_invalid_value(S, hd, reason.msg, reason.context, u, reason.type)
  ELSE Assembled(S, u, hd, value, reason, replacement, sk)

(* A variant of _invalid_value without the branch for a FilterError      *)
(* reason: the reporting unit assembles a context of its own around it.    *)
_invalid_valueRewrap(S, u, value, reason, replacement, sk) ==
  IF handler(S.heap, u) = Diverge THEN Raise(S, Exc("RecursionError", "", EmptyCtx))
  ELSE Assembled(S, u, handler(S.heap, u), value, reason, replacement, sk)

(* A variant of _invalid_value that stores the sub-key as the key of the  *)
(* unit before it reports.                                                  *)
_invalid_valueKeepSubKey(S, u, value, reason, replacement, sk) ==
  IF sk = None
  THEN Handled(S, u, handler(S.heap, u), value, reason, replacement, sk)
  ELSE Handled([S EXCEPT !.heap[u]._key = sk], u, handler(S.heap, u), value, reason,
               replacement, None)

(* BaseFilter._invalid_value; reason is an error code                     *)
(* ([type |-> "code", msg |-> code]) or an exception.                      *)
_invalid_value(S, u, value, reason, replacement, sk) ==
  Handled(S, u, handler(S.heap, u), value, reason, replacement, sk)

Code(c) == [type |-> "code", msg |-> c, context |-> EmptyCtx]

(***************************************************************************)
(* Filter-compatible values.  A candidate is a base value wrapped in depth  *)
(* zero-argument callables (lambda: lambda: base); the base is a unit       *)
(* instance (a chain is one), None, a filter class (itself a callable that  *)
(* constructs a fresh instance) or some other value such as 42.             *)
(***************************************************************************)
CUnit(u) == [depth |-> 0, tag |-> "unit", id |-> u, kind |-> <<"", "">>]

CNone == [depth |-> 0, tag |-> "none", id |-> 0, kind |-> <<"", "">>]

CClass(k) == [depth |-> 0, tag |-> "class", id |-> 0, kind |-> k]

COther == [depth |-> 0, tag |-> "other", id |-> 0, kind |-> <<"int", "42">>]

(* The TypeError of resolve names the type and the value (and then the    *)
(* class that resolves, left out here).                                     *)
Incompatible(c) ==
  Exc("TypeError", c.kind[1] \o " " \o c.kind[2] \o " is not compatible", EmptyCtx)

Wrap(c, n) == [c EXCEPT !.depth = n]

(* parent.setter: a weak reference to the parent, or None *)
SetParent(h, u, p) == [h EXCEPT ![u]._parent = p]

(* key.setter *)
SetKey(h, u, k) == [h EXCEPT ![u]._key = k]

(* The end of the first branch of resolve: the parent and the key are    *)
(* set where they are truthy, and the unit is returned.                    *)
Attach(r, par, k) ==
  IF r.exc # NoExc THEN r
  ELSE [r EXCEPT !.heap =
          IF k # None /\ k # ""
          THEN SetKey(IF par # 0 THEN SetParent(r.heap, r.unit, par) ELSE r.heap,
                      r.unit, k)
          ELSE IF par # 0 THEN SetParent(r.heap, r.unit, par) ELSE r.heap]

(* A variant of resolve without the branch for callables: whatever is no  *)
(* unit and not None is incompatible.                                       *)
resolveUnitsOnly(h, c, par, k) ==
  IF c.depth = 0 /\ c.tag = "none"
  THEN [heap |-> Append(h, NewUnit("NoOp", "")), unit |-> Len(h) + 1, exc |-> NoExc]
  ELSE IF c.depth = 0 /\ c.tag = "unit"
  THEN Attach([heap |-> h, unit |-> c.id, exc |-> NoExc], par, k)
  ELSE [heap |-> h, unit |-> 0, exc |-> Incompatible(c)]

(* BaseFilter.resolve.  Returns the heap, the resolved unit and the       *)
(* exception raised.                                                       *)
RECURSIVE resolve(_, _, _, _)
resolve(h, c, par, k) ==
  IF c.depth = 0 /\ c.tag = "none"
  THEN [heap |-> Append(h, NewUnit("NoOp", "")), unit |-> Len(h) + 1, exc |-> NoExc]
  ELSE IF c.depth = 0 /\ c.tag = "unit"
  THEN Attach([heap |-> h, unit |-> c.id, exc |-> NoExc], par, k)
  ELSE IF c.depth > 0
  THEN Attach(resolve(h, Wrap(c, c.depth - 1), 0, None), par, k)
  ELSE IF c.tag = "class"
  THEN Attach(resolve(Append(h, NewUnit(c.kind[1], c.kind[2])),
                      CUnit(Len(h) + 1), 0, None), par, k)
  ELSE [heap |-> h, unit |-> 0, exc |-> Incompatible(c)]

(***************************************************************************)
(* Composition                                                              *)
(***************************************************************************)
(* Objects created by an operation that ends without a reference to them  *)
(* are freed; a weak parent reference to a freed object reads as None      *)
(* (the parent property catches ReferenceError).                           *)
Collect(h, n) ==
  [u \in 1..n |-> IF h[u]._parent > n THEN [h[u] EXCEPT !._parent = 0] ELSE h[u]]

(* FilterChain._add *)
_add(h, c, cand) ==
  LET rr == resolve(h, cand, c, None) IN
  IF rr.exc # NoExc THEN rr
  ELSE [heap |-> [rr.heap EXCEPT ![c]._filters = Append(@, rr.unit)],
        unit |-> c, exc |-> NoExc]

(* FilterChain.__init__ *)
FilterChainInit(h, cand) ==
  _add(Append(h, NewUnit("FilterChain", "")), Len(h) + 1, cand)

(* FilterChain.__copy__ (BaseFilter.__copy__ and the copy of _filters);   *)
(* the NoOp that the constructor of the copy adds is dropped with the      *)
(* list it was in.                                                          *)
ChainCopy(h, c) ==
  Append(h, [NewUnit("FilterChain", "") EXCEPT
               !._parent = h[c]._parent, !._key = h[c]._key,
               !._handler = h[c]._handler, !._filters = h[c]._filters])

(* FilterChain.__or__ *)
ChainOr(h, c, cand) ==
  LET resolved == resolve(h, cand, 0, None) IN
  IF resolved.exc # NoExc THEN [heap |-> h, unit |-> 0, exc |-> resolved.exc]
  ELSE _add(ChainCopy(h, c), Len(h) + 1, cand)

(* BaseFilter.__or__ *)
UnitOr(h, u, cand) ==
  LET chain == FilterChainInit(h, CUnit(u))
      resolved == resolve(chain.heap, cand, 0, None)
  IN IF resolved.exc # NoExc
     THEN [heap |-> Collect(resolved.heap, Len(h)), unit |-> 0, exc |-> resolved.exc]
     ELSE _add(resolved.heap, chain.unit, CUnit(resolved.unit))

Or(h, u, cand) ==
  IF h[u].kind = "FilterChain" THEN ChainOr(h, u, cand) ELSE UnitOr(h, u, cand)

(* Type((typing.Mapping, typing.Sequence)) | NotEmpty, the chain that    *)
(* Item._apply makes for every value.                                      *)
ItemChain(h) ==
  UnitOr(Append(h, NewUnit("Type", "(typing.Mapping, typing.Sequence)")), Len(h) + 1,
         CClass(<<"NotEmpty", "allow_none">>))

(***************************************************************************)
(* apply, _apply, _filter                                                   *)
(***************************************************************************)
(* The callable given to Call, after the even_only of the tests: it     *)
(* raises a FilterError with a custom code for one value, another         *)
(* exception for a second one and returns a converted value otherwise.    *)
callable(v) ==
  CASE v = "fe" -> [ret |-> None, exc |-> Exc("FilterError", "value is not even!",
                                               [code |-> "not_even"])]
    [] v = "ex" -> [ret |-> None, exc |-> Exc("ValueError", "value is not even!", EmptyCtx)]
    [] v = "a" -> [ret |-> "A", exc |-> NoExc]
    [] OTHER -> [ret |-> v, exc |-> NoExc]

CallNo(S) == Len(S.log) + 1

RECURSIVE apply(_, _, _)
RECURSIVE _apply(_, _, _, _)
RECURSIVE _apply_none(_, _, _)
RECURSIVE _filter(_, _, _, _, _)
RECURSIVE ChainLoop(_, _, _, _, _)
RECURSIVE ChainLoopNoBreak(_, _, _, _, _)

(* A variant of the else clause of _filter that takes over the flag of   *)
(* the child.                                                               *)
FilteredFlagOfChild(u, child, value, r) ==
  IF Catchable(r.exc) THEN _invalid_value(St(r), u, value, r.exc, None, None)
  ELSE IF r.exc # NoExc THEN r
  ELSE Ok([St(r) EXCEPT !.heap[u]._has_errors = r.heap[child]._has_errors], r.ret)

(* _filter after filter_chain.apply(value) ended with r: the except and   *)
(* the else clause.                                                         *)
Filtered(u, child, value, r) ==
  IF Catchable(r.exc) THEN _invalid_value(St(r), u, value, r.exc, None, None)
  ELSE IF r.exc # NoExc THEN r
  ELSE Ok([St(r) EXCEPT !.heap[u]._has_errors =
             r.heap[u]._has_errors \/ r.heap[child]._has_errors], r.ret)

(* _filter after self.resolve(...) ended with rr *)
Resolved(S, u, value, rr) ==
  IF rr.exc # NoExc THEN Raise(S, rr.exc)
  ELSE Filtered(u, rr.unit, value, apply([S EXCEPT !.heap = rr.heap], rr.unit, value))

(* BaseFilter._filter *)
_filter(S, u, value, c, sk) == Resolved(S, u, value, resolve(S.heap, c, u, sk))

(* The log gets an event when the loop of a chain hands the value to the  *)
(* unit at position i ("delegate") and one when that returns or raises     *)
(* ("iter", with the chain's flag at that moment); call is the number of   *)
(* the apply call of the chain that runs the loop.                          *)
Delegate(S, u, call, i) ==
  Emit(S, [ev |-> "delegate", unit |-> u, call |-> call, idx |-> i])

Iter(r, u, call, i) ==
  Emit(St(r), [ev |-> "iter", unit |-> u, call |-> call, idx |-> i,
               flag |-> r.heap[u]._has_errors, raised |-> r.exc # NoExc])

(* A variant of the loop that does not look at the flag. *)
StepNoBreak(u, call, i, r) ==
  IF r.exc # NoExc THEN Raise(Iter(r, u, call, i), r.exc)
  ELSE ChainLoopNoBreak(Iter(r, u, call, i), u, call, i + 1, r.ret)

ChainLoopNoBreak(S, u, call, i, value) ==
  IF i > Len(S.heap[u]._filters) THEN Ok(S, value)
  ELSE StepNoBreak(u, call, i,
         _filter(Delegate(S, u, call, i), u, value, CUnit(S.heap[u]._filters[i]), None))

(* The body of the loop of FilterChain._apply after self._filter(value,   *)
(* f) ended with r for the unit at position i.                              *)
Step(u, call, i, r) ==
  IF r.exc # NoExc THEN Raise(Iter(r, u, call, i), r.exc)
  ELSE IF r.heap[u]._has_errors THEN Ok(Iter(r, u, call, i), r.ret)
  ELSE ChainLoop(Iter(r, u, call, i), u, call, i + 1, r.ret)

(* A variant of the loop that ends without returning the value. *)
ChainLoopNoReturn(S, u, call, i, value) ==
  IF i > Len(S.heap[u]._filters) THEN Ok(S, None)
  ELSE Step(u, call, i,
         _filter(Delegate(S, u, call, i), u, value, CUnit(S.heap[u]._filters[i]), None))

(* FilterChain._apply: the loop over self._filters from position i on *)
ChainLoop(S, u, call, i, value) ==
  IF i > Len(S.heap[u]._filters) THEN Ok(S, value)
  ELSE Step(u, call, i,
         _filter(Delegate(S, u, call, i), u, value, CUnit(S.heap[u]._filters[i]), None))

(* Type._apply for Type((typing.Mapping, typing.Sequence)): of the values *)
(* here only "int", which stands for 42, is neither.                       *)
TypeApply(S, u, value) ==
  IF value = "int" THEN _invalid_value(S, u, value, Code("wrong_type"), None, None)
  ELSE Ok(S, value)

(* Item._apply_mapping and Item._apply_sequence for the target key       *)
(* S.heap[u].arg: "has" stands for a mapping that holds the key and "map"  *)
(* for one that does not; the other values are strings, sequences that a   *)
(* key which is a string cannot index.                                      *)
ItemPick(S, u, value) ==
  IF value = "has" THEN Ok(S, "item")
  ELSE IF value = "map"
  THEN _invalid_value(S, u, value, Code("missing"), None, S.heap[u].arg)
  ELSE Raise(S, Exc("TypeError", "string indices must be integers, not 'str'", EmptyCtx))

(* Item._apply after self._filter(value, Type(...) | NotEmpty) ended     *)
(* with r; the chain it made, kept in heap above position n, is freed.     *)
ItemChecked(u, n, r) ==
  IF r.exc # NoExc THEN [r EXCEPT !.heap = Collect(r.heap, n)]
  ELSE IF r.heap[u]._has_errors
  THEN Ok([heap |-> Collect(r.heap, n), log |-> r.log], None)
  ELSE ItemPick([heap |-> Collect(r.heap, n), log |-> r.log], u, r.ret)

(* Item._apply *)
ItemApply(S, u, value, tmp) ==
  ItemChecked(u, Len(S.heap), _filter([S EXCEPT !.heap = tmp.heap], u, value,
                                      CUnit(tmp.unit), None))

(* The mappings and sequences that Pick is applied to: "{a}" stands for  *)
(* {'a': 'x'}, "[x]" for ['x'].                                              *)
Mapping(value) ==
  CASE value = "{a}" -> [k \in {"a"} |-> "x"]
    [] value = "{a,c}" -> [k \in {"a", "c"} |-> IF k = "a" THEN "x" ELSE "z"]
    [] OTHER -> [k \in {} |-> None]

Sequence(value) ==
  CASE value = "[x]" -> <<"x">>
    [] value = "[x,y,z]" -> <<"x", "y", "z">>
    [] OTHER -> <<>>

(* selective_copy_mapping *)
selective_copy_mapping(source, keys) ==
  [k \in {keys[i] : i \in DOMAIN keys} |-> IF k \in DOMAIN source THEN source[k] ELSE None]

(* selective_copy_sequence *)
selective_copy_sequence(source, indices) ==
  [i \in DOMAIN indices |->
     IF indices[i] < Len(source) THEN source[indices[i] + 1] ELSE None]

(* Pick._missing_key_allowed: allow_missing_keys is True or False here *)
_missing_key_allowed(h, u, k) == h[u].arg.allow_missing_keys

(* key in value, idx < len(value) *)
Holds(h, u, value, k) ==
  IF h[u].arg.indexed THEN k < Len(Sequence(value)) ELSE k \in DOMAIN Mapping(value)

(* A variant of the loop of Pick that ends at the first missing key. *)
PickStepStop(u, value, i, r) == r

RECURSIVE PickLoop(_, _, _, _)

(* The loop of _apply_mapping and _apply_sequence after the key at        *)
(* position i was looked at, with r: what _invalid_value returns is         *)
(* dropped.                                                                  *)
PickStep(u, value, i, r) ==
  IF r.exc # NoExc THEN r ELSE PickLoop(St(r), u, value, i + 1)

(* Pick._apply_mapping and Pick._apply_sequence: the loop over self.keys  *)
(* from position i on, and the copy that is returned.                       *)
PickLoop(S, u, value, i) ==
  IF i > Len(S.heap[u].arg.keys)
  THEN Ok(S, IF S.heap[u].arg.indexed
             THEN selective_copy_sequence(Sequence(value), S.heap[u].arg.keys)
             ELSE selective_copy_mapping(Mapping(value), S.heap[u].arg.keys))
  ELSE IF Holds(S.heap, u, value, S.heap[u].arg.keys[i])
          \/ _missing_key_allowed(S.heap, u, S.heap[u].arg.keys[i])
  THEN PickLoop(S, u, value, i + 1)
  ELSE PickStep(u, value, i,
         _invalid_value(S, u, None, Code("missing"), None,
                        IF S.heap[u].arg.indexed THEN StrInt(S.heap[u].arg.keys[i])
                        ELSE S.heap[u].arg.keys[i]))

(* Pick._apply after self._filter(value, Type(...)) ended with r; the     *)
(* Type it made, kept in heap above position n, is freed.                   *)
PickChecked(u, n, r) ==
  IF r.exc # NoExc THEN [r EXCEPT !.heap = Collect(r.heap, n)]
  ELSE IF r.heap[u]._has_errors
  THEN Ok([heap |-> Collect(r.heap, n), log |-> r.log], None)
  ELSE PickLoop([heap |-> Collect(r.heap, n), log |-> r.log], u, r.ret, 1)

(* Pick._apply *)
PickApply(S, u, value) ==
  PickChecked(u, Len(S.heap),
              _filter([S EXCEPT !.heap = Append(S.heap,
                         NewUnit("Type", "(typing.Mapping, typing.Sequence)"))],
                      u, value, CUnit(Len(S.heap) + 1), None))

(* Call._apply after self.callable(value) ended with c *)
Called(S, u, value, c) ==
  IF c.exc # NoExc THEN _invalid_value(S, u, value, c.exc, None, None)
  ELSE Ok(S, c.ret)

(* The _apply of each kind of unit *)
_apply(S, u, call, value) ==
  CASE S.heap[u].kind = "FilterChain" -> ChainLoop(S, u, call, 1, value)
    [] S.heap[u].kind = "NoOp" -> Ok(S, value)
    [] S.heap[u].kind = "NotEmpty" ->
         IF value = "" THEN _invalid_value(S, u, value, Code("empty"), None, None)
         ELSE Ok(S, value)
    [] S.heap[u].kind = "Call" -> Called(S, u, value, callable(value))
    [] S.heap[u].kind = "Type" -> TypeApply(S, u, value)
    [] S.heap[u].kind = "Item" -> ItemApply(S, u, value, ItemChain(S.heap))
    [] S.heap[u].kind = "Pick" -> PickApply(S, u, value)
    [] OTHER -> Raise(S, Exc("NotImplementedError", "Not implemented", EmptyCtx))

(* A variant of _apply_none that hands None to _apply. *)
_apply_noneToApply(S, u, call) == _apply(S, u, call, None)

(* _apply_none of each kind of unit *)
_apply_none(S, u, call) ==
  CASE S.heap[u].kind = "FilterChain" -> _apply(S, u, call, None)
    [] S.heap[u].kind = "NotEmpty" /\ S.heap[u].arg = "reject_none" ->
         _invalid_value(S, u, None, Code("empty"), None, None)
    [] OTHER -> Ok(S, None)

(* apply after the try block ended with r: the except clause *)
Tried(u, value, r) ==
  IF Catchable(r.exc) THEN _invalid_value(St(r), u, value, r.exc, None, None)
  ELSE r

(* The try block of apply *)
Try(S, u, call, value) ==
  Tried(u, value, IF value = None THEN _apply_none(S, u, call)
                  ELSE _apply(S, u, call, value))

(* The log notes each apply call with the flag it found. *)
Enter(S, u, value) ==
  Emit(S, [ev |-> "apply", unit |-> u, call |-> CallNo(S), value |-> value,
           stale |-> S.heap[u]._has_errors])

(* A variant of apply that keeps the flag of the previous call. *)
applyNoReset(S, u, value) == Try(Enter(S, u, value), u, CallNo(S), value)

(* BaseFilter.apply *)
apply(S, u, value) ==
  Try([Enter(S, u, value) EXCEPT !.heap[u]._has_errors = FALSE], u, CallNo(S), value)

(***************************************************************************)
(* Composition in the earlier version of the library                        *)
(* (src/filters/base.py), where None is normalized to None and not to a     *)
(* NoOp.  apply, _apply, _filter and _invalid_value are in that version     *)
(* what they are above.                                                      *)
(***************************************************************************)
(* BaseFilter._normalize; unit 0 stands for the None it returns for None *)
RECURSIVE _normalize(_, _, _, _)
_normalize(h, c, par, k) ==
  IF c.depth = 0 /\ c.tag = "none"
  THEN [heap |-> h, unit |-> 0, exc |-> NoExc]
  ELSE IF c.depth = 0 /\ c.tag = "unit"
  THEN Attach([heap |-> h, unit |-> c.id, exc |-> NoExc], par, k)
  ELSE IF c.depth > 0
  THEN Attach(_normalize(h, Wrap(c, c.depth - 1), 0, None), par, k)
  ELSE IF c.tag = "class"
  THEN Attach(_normalize(Append(h, NewUnit(c.kind[1], c.kind[2])),
                         CUnit(Len(h) + 1), 0, None), par, k)
  ELSE [heap |-> h, unit |-> 0, exc |-> Incompatible(c)]

(* FilterChain._add after self._normalize(next_filter, parent=self) *)
Added(c, rr) ==
  IF rr.exc # NoExc \/ rr.unit = 0 THEN [rr EXCEPT !.unit = c]
  ELSE [heap |-> [rr.heap EXCEPT ![c]._filters = Append(@, rr.unit)],
        unit |-> c, exc |-> NoExc]

(* FilterChain._add *)
Legacy_add(h, c, cand) == Added(c, _normalize(h, cand, c, None))

(* FilterChain.__init__ *)
LegacyFilterChainInit(h, cand) ==
  Legacy_add(Append(h, NewUnit("FilterChain", "")), Len(h) + 1, cand)

(* __or__ after self._normalize(next_filter): self where that is None *)
Normalized(h, u, cand, normalized) ==
  IF normalized.exc # NoExc
  THEN [heap |-> h, unit |-> 0, exc |-> normalized.exc]
  ELSE IF normalized.unit = 0
  THEN [heap |-> h, unit |-> u, exc |-> NoExc]
  ELSE IF h[u].kind = "FilterChain"
  THEN Legacy_add(ChainCopy(h, u), Len(h) + 1, cand)
  ELSE Legacy_add(LegacyFilterChainInit(h, CUnit(u)).heap, Len(h) + 1, cand)

(* BaseFilter.__or__ and FilterChain.__or__ *)
LegacyOr(h, u, cand) == Normalized(h, u, cand, _normalize(h, cand, 0, None))

(***************************************************************************)
(* The program: construction, composition, configuration and application    *)
(* of units.  `last' is what the caller of the last operation observed.     *)
(***************************************************************************)
Units == 1..Len(heap)

ZeroArgClasses == {<<"NoOp", "">>, <<"NotEmpty", "allow_none">>, <<"BaseFilter", "">>}

BaseCands == {CUnit(u) : u \in Units} \cup {CNone, COther}
             \cup {CClass(k) : k \in ZeroArgClasses}

Cands == {Wrap(b, n) : b \in BaseCands, n \in 0..MaxDepth}

(* What the caller of an operation observes: the operation and its       *)
(* arguments, the unit returned, and for apply the value, the result, the  *)
(* exception raised and the events of the call.                            *)
Arg(u, cand, par, k) == [unit |-> u, cand |-> cand, parent |-> par, key |-> k]

NoArg == Arg(0, CNone, 0, None)

Obs(op, arg, unit, value, ret, exc, log) ==
  [op |-> op, arg |-> arg, unit |-> unit, value |-> value, ret |-> ret,
   exc |-> exc, log |-> log]

Built(op, arg, unit, exc) == Obs(op, arg, unit, None, None, exc, <<>>)

Init ==
  /\ heap = <<>>
  /\ last = Built("init", NoArg, 0, NoExc)

(* K(...) for a leaf class K *)
Construct(k) ==
  /\ heap' = Append(heap, NewUnit(k[1], k[2]))
  /\ last' = Built("new", NoArg, Len(heap) + 1, NoExc)

(* An operation that builds a unit ended with r. *)
Return(op, arg, r) ==
  /\ heap' = r.heap
  /\ last' = Built(op, arg, r.unit, r.exc)

(* What an operation that raised leaves of the objects it created *)
Kept(h, r) == IF r.exc = NoExc THEN r ELSE [r EXCEPT !.heap = Collect(r.heap, Len(h))]

(* FilterChain(cand) *)
NewChain(cand) ==
  Return("chain", Arg(0, cand, 0, None), Kept(heap, FilterChainInit(heap, cand)))

(* u | cand *)
Then(u, cand) == Return("or", Arg(u, cand, 0, None), Or(heap, u, cand))

(* u.set_handler(hd) *)
set_handler(u, hd) ==
  /\ heap' = [heap EXCEPT ![u]._handler = hd]
  /\ last' = Built("set_handler", NoArg, u, NoExc)

(* u.key = k *)
SetKeyOp(u, k) ==
  /\ heap' = SetKey(heap, u, k)
  /\ last' = Built("key", NoArg, u, NoExc)

(* u.apply(value) ended with r. *)
Returned(u, value, r) ==
  /\ heap' = r.heap
  /\ last' = Obs("apply", NoArg, u, value, r.ret, r.exc, r.log)

(* u.apply(value) *)
Apply(u, value) == Returned(u, value, apply([heap |-> heap, log |-> <<>>], u, value))

(* BaseFilter.resolve(cand, parent=par, key=k) *)
Resolve(cand, par, k) ==
  Return("resolve", Arg(0, cand, par, k), Kept(heap, resolve(heap, cand, par, k)))

(***************************************************************************)
(* Spec: a program that constructs units of the failing kinds, chains       *)
(* them, gives them handlers and then applies them.                         *)
(***************************************************************************)
EngineKinds == {<<"NotEmpty", "allow_none">>, <<"Call", "even_only">>}

EngineHandlers == {"raise", "mem"}

Composing == last.op # "apply"

Fits == Len(heap') <= MaxUnits

Next ==
  \/ \E k \in EngineKinds : Composing /\ Construct(k) /\ Fits
  \/ \E u \in Units : Composing /\ NewChain(CUnit(u)) /\ Fits
  \/ \E u \in Units, v \in Units : Composing /\ Then(u, CUnit(v)) /\ Fits
  \/ \E u \in Units, hd \in EngineHandlers : Composing /\ set_handler(u, hd)
  \/ \E u \in Units, v \in Values : Apply(u, v)

Spec == Init /\ [][Next]_vars

(***************************************************************************)
(* SpecResolve: a program that constructs units and chains, gives some of   *)
(* them a key, and then resolves a filter-compatible or other value, with   *)
(* or without parent and key.                                                *)
(***************************************************************************)
ResolveKinds == {<<"NoOp", "">>, <<"NotEmpty", "allow_none">>}

Building == last.op # "resolve"

NextResolve ==
  \/ \E k \in ResolveKinds : Building /\ Construct(k) /\ Fits
  \/ \E u \in Units : Building /\ NewChain(CUnit(u)) /\ Fits
  \/ \E u \in Units : Building /\ heap[u]._key = None /\ SetKeyOp(u, "own")
  \/ \E cand \in Cands, par \in {0} \cup Units, k \in Keys :
       Building /\ Resolve(cand, par, k) /\ Fits

SpecResolve == Init /\ [][NextResolve]_vars

(***************************************************************************)
(* SpecDeep: a program that builds chains of chains, up to MaxDeep objects, *)
(* over a unit whose _apply raises, gives them a collecting handler and     *)
(* applies them.                                                             *)
(***************************************************************************)
FitsDeep == Len(heap') <= MaxDeep

NextDeep ==
  \/ Composing /\ Construct(<<"BaseFilter", "">>) /\ FitsDeep
  \/ \E u \in Units : Composing /\ NewChain(CUnit(u)) /\ FitsDeep
  \/ \E u \in Units, v \in Units : Composing /\ Then(u, CUnit(v)) /\ FitsDeep
  \/ \E u \in Units : Composing /\ set_handler(u, "mem")
  \/ \E u \in Units : Apply(u, "a")

SpecDeep == Init /\ [][NextDeep]_vars

(***************************************************************************)
(* SpecLegacy: the program of Spec with the composition of the earlier      *)
(* version, in which FilterChain() and FilterChain(None) hold no unit.      *)
(***************************************************************************)
LegacyKinds == {<<"NoOp", "">>, <<"NotEmpty", "reject_none">>}

LegacyCands == {CNone} \cup {CUnit(u) : u \in Units}

(* FilterChain(cand) *)
LegacyNewChain(cand) ==
  Return("chain", Arg(0, cand, 0, None), Kept(heap, LegacyFilterChainInit(heap, cand)))

(* u | cand *)
LegacyThen(u, cand) == Return("or", Arg(u, cand, 0, None), LegacyOr(heap, u, cand))

NextLegacy ==
  \/ \E k \in LegacyKinds : Composing /\ Construct(k) /\ Fits
  \/ \E cand \in LegacyCands : Composing /\ LegacyNewChain(cand) /\ Fits
  \/ \E u \in Units, cand \in LegacyCands : Composing /\ LegacyThen(u, cand) /\ Fits
  \/ \E u \in Units, hd \in EngineHandlers : Composing /\ set_handler(u, hd)
  \/ \E u \in Units, v \in Values : Apply(u, v)

SpecLegacy == Init /\ [][NextLegacy]_vars

(***************************************************************************)
(* SpecAssoc: a program that builds operands a, b and c, evaluates          *)
(* (a | b) | c, gives the result a handler (or none), applies it to a       *)
(* value and drops it, and then does the same with a | (b | c).             *)
(***************************************************************************)
(* A chain that nothing refers to any longer is freed: the weak parent    *)
(* references to it read as None from then on.                             *)
Free(r, t) ==
  [r EXCEPT !.heap = [u \in DOMAIN r.heap |->
                        IF r.heap[u]._parent = t THEN [r.heap[u] EXCEPT !._parent = 0]
                        ELSE r.heap[u]]]

(* t | c for the result t of r, which is a temporary of the expression *)
OrTemp(r, c) == Free(Or(r.heap, r.unit, CUnit(c)), r.unit)

(* (a | b) | c *)
LeftGrouped(h, a, b, c) == OrTemp(Or(h, a, CUnit(b)), c)

(* a | t for the result t of r *)
OrOnto(a, r) == Or(r.heap, a, CUnit(r.unit))

(* a | (b | c) *)
RightGrouped(h, a, b, c) == OrOnto(a, Or(h, b, CUnit(c)))

(* r.set_handler(hd).apply(v), or r.apply(v) *)
Run(r, hd, v) ==
  apply([heap |-> IF hd = NoHandler THEN r.heap
                  ELSE [r.heap EXCEPT ![r.unit]._handler = hd],
         log |-> <<>>], r.unit, v)

(* What is observed of an apply call: the units that are no chains in    *)
(* the order they were applied, with the values they were given; the       *)
(* reports that handlers collected; the value returned and the exception   *)
(* raised.                                                                  *)
Leaves(r) ==
  SelectSeq(r.log, LAMBDA e : e.ev = "apply" /\ r.heap[e.unit].kind # "FilterChain")

Collected(r) == SelectSeq(r.log, LAMBDA e : e.ev = "report" /\ e.handler # "raise")

Seen(r, leaves, reports) ==
  [leaves |-> [i \in DOMAIN leaves |-> <<leaves[i].unit, leaves[i].value>>],
   reports |-> [i \in DOMAIN reports |->
                  <<reports[i].handler, reports[i].message, reports[i].context>>],
   ret |-> r.ret, exc |-> r.exc]

View(r) == Seen(r, Leaves(r), Collected(r))

Probed(a, b, c, hd, v, l, r) ==
  /\ heap' = Collect(r.heap, Len(heap))
  /\ last' = [op |-> "probe", arg |-> [a |-> a, b |-> b, c |-> c, handler |-> hd],
              unit |-> 0, value |-> v, ret |-> None, exc |-> NoExc, log |-> <<>>,
              left |-> View(l), right |-> View(r)]

ProbeRight(a, b, c, hd, v, l) ==
  Probed(a, b, c, hd, v, l,
         Run(RightGrouped(Collect(l.heap, Len(heap)), a, b, c), hd, v))

Probe(a, b, c, hd, v) ==
  ProbeRight(a, b, c, hd, v, Run(LeftGrouped(heap, a, b, c), hd, v))

Preparing == last.op # "probe"

ProbeValues == {"", "a", "fe"}

NextAssoc ==
  \/ \E k \in EngineKinds : Preparing /\ Construct(k) /\ Fits
  \/ \E u \in Units : Preparing /\ NewChain(CUnit(u)) /\ Fits
  \/ \E u \in Units : Preparing /\ set_handler(u, "mem")
  \/ \E a \in Units, b \in Units, c \in Units, hd \in {NoHandler, "sub"},
        v \in ProbeValues : Preparing /\ Probe(a, b, c, hd, v)

SpecAssoc == Init /\ [][NextAssoc]_vars

(***************************************************************************)
(* SpecHandlers: a program that constructs a unit that rejects the empty    *)
(* value and a unit whose _apply raises, chains them, sets raising and      *)
(* returning handlers on some of them and then applies them, to None too.   *)
(***************************************************************************)
HandlerKinds == {<<"NotEmpty", "allow_none">>, <<"BaseFilter", "">>}

TreeHandlers == {"raise", "sub"}

HandlerValues == {None, "", "a"}

NextHandlers ==
  \/ \E k \in HandlerKinds : Composing /\ Construct(k) /\ Fits
  \/ \E u \in Units : Composing /\ NewChain(CUnit(u)) /\ Fits
  \/ \E u \in Units, v \in Units : Composing /\ Then(u, CUnit(v)) /\ Fits
  \/ \E u \in Units, hd \in TreeHandlers : Composing /\ set_handler(u, hd)
  \/ \E u \in Units, v \in HandlerValues : Apply(u, v)

SpecHandlers == Init /\ [][NextHandlers]_vars

(***************************************************************************)
(* SpecKeys: a program that constructs NotEmpty and Item units, chains      *)
(* them, gives them keys (the empty key too) and applies them.              *)
(***************************************************************************)
KeyKinds == {<<"NotEmpty", "allow_none">>, <<"Item", "t">>}

OwnKeys == {"", "p", "q"}

KeyValues == {"", "a", "map"}

NextKeys ==
  \/ \E k \in KeyKinds : Composing /\ Construct(k) /\ Fits
  \/ \E u \in Units : Composing /\ NewChain(CUnit(u)) /\ Fits
  \/ \E u \in Units, v \in Units : Composing /\ Then(u, CUnit(v)) /\ Fits
  \/ \E u \in Units, k \in OwnKeys : Composing /\ heap[u]._key = None /\ SetKeyOp(u, k)
  \/ \E u \in Units, v \in KeyValues : Apply(u, v)

SpecKeys == Init /\ [][NextKeys]_vars

(***************************************************************************)
(* SpecPick: a program that constructs Pick units over keys of a mapping    *)
(* and over indices of a sequence, with and without missing keys allowed,   *)
(* makes chains of them, gives a collecting handler and keys to some, and   *)
(* applies the Pick units to mappings, to sequences and to a value that is  *)
(* neither.                                                                 *)
(***************************************************************************)
PickKinds ==
  {<<"Pick", [keys |-> <<"a", "b", "c">>, indexed |-> FALSE, allow_missing_keys |-> t]>> :
     t \in BOOLEAN}

PickIndexKinds ==
  {<<"Pick", [keys |-> <<0, 1, 2>>, indexed |-> TRUE, allow_missing_keys |-> FALSE]>>}

MappingValues == {"int", "{}", "{a}", "{a,c}"}

SequenceValues == {"int", "[x]", "[x,y,z]"}

PickTargets == {u \in Units : heap[u].kind = "Pick"}

FitsPick == Len(heap') <= MaxPicked

NextPick ==
  \/ \E k \in PickKinds : Composing /\ Construct(k) /\ FitsPick
  \/ \E k \in PickIndexKinds : Composing /\ Construct(k) /\ FitsPick
  \/ \E u \in PickTargets : Composing /\ NewChain(CUnit(u)) /\ FitsPick
  \/ \E u \in Units : Composing /\ heap[u]._handler = NoHandler /\ set_handler(u, "mem")
  \/ \E u \in Units : Composing /\ heap[u]._key = None /\ SetKeyOp(u, "p")
  \/ \E u \in PickTargets, v \in MappingValues : ~heap[u].arg.indexed /\ Apply(u, v)
  \/ \E u \in PickTargets, v \in SequenceValues : heap[u].arg.indexed /\ Apply(u, v)

SpecPick == Init /\ [][NextPick]_vars

(***************************************************************************)
(* SpecRequired: a program that constructs units that accept None and       *)
(* Required units, which do not (src/filters/simple.py 869-881: Required is *)
(* NotEmpty(allow_none=False)), chains them, gives some of them a handler   *)
(* of their own and applies them, to None too.                              *)
(***************************************************************************)
RequiredKinds ==
  {<<"NotEmpty", "allow_none">>, <<"NotEmpty", "reject_none">>, <<"Call", "even_only">>}

RequiredValues == {None, "", "a", "fe"}

NextRequired ==
  \/ \E k \in RequiredKinds : Composing /\ Construct(k) /\ Fits
  \/ \E u \in Units : Composing /\ NewChain(CUnit(u)) /\ Fits
  \/ \E u \in Units, v \in Units : Composing /\ Then(u, CUnit(v)) /\ Fits
  \/ \E u \in Units, hd \in EngineHandlers :
       Composing /\ heap[u]._handler = NoHandler /\ set_handler(u, hd)
  \/ \E u \in Units, v \in RequiredValues : Apply(u, v)

SpecRequired == Init /\ [][NextRequired]_vars

(***************************************************************************)
(* SpecThreads: two callers apply one chain NotEmpty | NotEmpty, which has  *)
(* the collecting handler, at the same time.  A step is one access to a     *)
(* flag that the callers share, or the part of the call between two of      *)
(* them; a thread switch can come between any two steps.  `last' holds for  *)
(* each caller where it stands in apply (pc), the position i in the loop of *)
(* the chain, its value, the flag it computed (tmp), the positions whose    *)
(* unit it ran and those whose unit rejected its value; and whether any     *)
(* step was taken while the other caller was inside its call.               *)
(***************************************************************************)
Callers == {1, 2}

ThreadValues == {"", "a"}

(* (NotEmpty() | NotEmpty()).set_handler(handler): the chain is the last  *)
(* object made.                                                             *)
Shared(r) == [r.heap EXCEPT ![r.unit]._handler = "mem"]

InitThreads ==
  /\ heap = Shared(UnitOr(<<NewUnit("NotEmpty", "allow_none"),
                            NewUnit("NotEmpty", "allow_none")>>, 1, CUnit(2)))
  /\ last = [op |-> "threads", overlapped |-> FALSE,
             calls |-> [t \in Callers |->
                          [pc |-> "apply", i |-> 0, value |-> None, tmp |-> FALSE,
                           ran |-> <<>>, failed |-> {}]]]

Chain == Len(heap)

Me(t) == last.calls[t]

Busy(call) == call.pc \notin {"apply", "done"}

(* The unit at the position of caller t *)
Current(t) == heap[Chain]._filters[Me(t).i]

(* Caller t went on to the state call. *)
Moved(t, call) ==
  last' = [last EXCEPT !.calls[t] = call,
                       !.overlapped = @ \/ \E o \in Callers \ {t} : Busy(Me(o))]

(* A variant of the reset that leaves the flag as it is. *)
ResetKeep(h, u) == h

(* apply: self._has_errors = False *)
Reset(h, u) == [h EXCEPT ![u]._has_errors = FALSE]

(* chain.apply(v) is called: the flag of the chain is reset. *)
ApplyEnter(t, v) ==
  /\ Me(t).pc = "apply"
  /\ heap' = Reset(heap, Chain)
  /\ Moved(t, [Me(t) EXCEPT !.pc = "loop", !.value = v, !.i = 1])

(* The loop takes the next unit: _filter resolves it with the chain as    *)
(* parent.                                                                  *)
LoopNext(t) ==
  /\ Me(t).pc = "loop" /\ Me(t).i <= Len(heap[Chain]._filters)
  /\ heap' = resolve(heap, CUnit(Current(t)), Chain, None).heap
  /\ Moved(t, [Me(t) EXCEPT !.pc = "enter"])

(* The loop is through: _apply returns the value. *)
LoopEnd(t) ==
  /\ Me(t).pc = "loop" /\ Me(t).i > Len(heap[Chain]._filters)
  /\ UNCHANGED heap
  /\ Moved(t, [Me(t) EXCEPT !.pc = "done"])

(* filter_chain.apply(value): the flag of the unit is reset. *)
ChildEnter(t) ==
  /\ Me(t).pc = "enter"
  /\ heap' = Reset(heap, Current(t))
  /\ Moved(t, [Me(t) EXCEPT !.pc = "run"])

(* The try block of the unit's apply ended with r. *)
ChildRan(t, r) ==
  /\ heap' = r.heap
  /\ Moved(t, [Me(t) EXCEPT !.pc = "read", !.value = r.ret,
                            !.ran = Append(@, Me(t).i),
                            !.failed = IF \A j \in DOMAIN r.log : r.log[j].ev # "report"
                                      THEN @ ELSE @ \cup {Me(t).i}])

(* filter_chain.apply(value) after the reset: _apply or _apply_none, with *)
(* _invalid_value where the unit rejects the value.                        *)
ChildRun(t) ==
  /\ Me(t).pc = "run"
  /\ ChildRan(t, applyNoReset([heap |-> heap, log |-> <<>>], Current(t), Me(t).value))

(* _filter: self._has_errors or filter_chain._has_errors is evaluated. *)
FlagRead(t) ==
  /\ Me(t).pc = "read"
  /\ UNCHANGED heap
  /\ Moved(t, [Me(t) EXCEPT !.pc = "write",
                            !.tmp = heap[Chain]._has_errors \/ heap[Current(t)]._has_errors])

(* _filter: the result is stored in self._has_errors. *)
FlagWrite(t) ==
  /\ Me(t).pc = "write"
  /\ heap' = [heap EXCEPT ![Chain]._has_errors = Me(t).tmp]
  /\ Moved(t, [Me(t) EXCEPT !.pc = "check"])

(* The loop: if self._has_errors: break *)
FlagCheck(t) ==
  /\ Me(t).pc = "check"
  /\ UNCHANGED heap
  /\ Moved(t, IF heap[Chain]._has_errors THEN [Me(t) EXCEPT !.pc = "done"]
              ELSE [Me(t) EXCEPT !.pc = "loop", !.i = @ + 1])

NextThreads ==
  \/ \E t \in Callers, v \in ThreadValues : ApplyEnter(t, v)
  \/ \E t \in Callers : LoopNext(t)
  \/ \E t \in Callers : LoopEnd(t)
  \/ \E t \in Callers : ChildEnter(t)
  \/ \E t \in Callers : ChildRun(t)
  \/ \E t \in Callers : FlagRead(t)
  \/ \E t \in Callers : FlagWrite(t)
  \/ \E t \in Callers : FlagCheck(t)

SpecThreads == InitThreads /\ [][NextThreads]_vars

(***************************************************************************)
(* MaxBytes (src/filters/string.py)                                         *)
(* A text is a sequence of code points, a byte string a sequence of         *)
(* numbers in 0..255.                                                       *)
(***************************************************************************)
(* The UTF-8 encoding of one code point *)
EncodePoint(cp) ==
  IF cp < 128 THEN <<cp>>
  ELSE IF cp < 2048 THEN <<192 + (cp \div 64), 128 + (cp % 64)>>
  ELSE IF cp < 65536
  THEN <<224 + (cp \div 4096), 128 + ((cp \div 64) % 64), 128 + (cp % 64)>>
  ELSE <<240 + (cp \div 262144), 128 + ((cp \div 4096) % 64),
         128 + ((cp \div 64) % 64), 128 + (cp % 64)>>

(* text.encode('utf-8') *)
RECURSIVE encode(_)
encode(text) ==
  IF text = <<>> THEN <<>> ELSE EncodePoint(Head(text)) \o encode(Tail(text))

(* bytes_value[a:] *)
From(bytes_value, a) == SubSeq(bytes_value, a + 1, Len(bytes_value))

(* bytes_value[0:n] for n >= 0 *)
Slice(bytes_value, n) ==
  SubSeq(bytes_value, 1, IF n < Len(bytes_value) THEN n ELSE Len(bytes_value))

(* A variant of the walk that removes nothing. *)
WalkKeep(truncated, i) == truncated

(* The length of the sequence that the leading byte o begins *)
seq_length(o) == IF o >= 240 THEN 4 ELSE IF o >= 224 THEN 3 ELSE 2

(* The loop of truncate_bytes over reversed(truncated), at the i-th byte  *)
(* from the end.                                                            *)
RECURSIVE Walk(_, _)
Walk(truncated, i) ==
  IF i > Len(truncated) THEN truncated
  ELSE IF i < 2 /\ truncated[Len(truncated) - i + 1] < 128 THEN truncated
  ELSE IF truncated[Len(truncated) - i + 1] >= 192
  THEN IF seq_length(truncated[Len(truncated) - i + 1]) # i
       THEN Slice(truncated, Len(truncated) - i)
       ELSE truncated
  ELSE Walk(truncated, i + 1)

(* len(''.encode('utf-8')): UTF-8 has no byte order mark *)
bom == Len(encode(<<>>))

(* truncate_bytes from the point where the prefix is prepended *)
Truncated(bytes_value, encoded_suffix, target_bytes) ==
  IF target_bytes < 1 THEN <<>>
  ELSE Walk(Slice(bytes_value, target_bytes), 1) \o encoded_suffix

(* MaxBytes.truncate_bytes, for the encoding 'utf-8' *)
truncate_bytes(self, bytes_value) ==
  IF Len(bytes_value) <= self.max_bytes THEN bytes_value
  ELSE Truncated(IF self.prefix # <<>>
                 THEN Slice(bytes_value, bom) \o From(encode(self.prefix), bom)
                      \o From(bytes_value, bom)
                 ELSE bytes_value,
                 IF self.suffix # <<>> THEN From(encode(self.suffix), bom) ELSE <<>>,
                 self.max_bytes
                   - Len(IF self.suffix # <<>> THEN From(encode(self.suffix), bom) ELSE <<>>))

(* MaxBytes._apply with truncate=True, for a text: Type((bytes, str)) |   *)
(* Unicode(encoding) return a normalized text as it is.                     *)
MaxBytes_apply(self, value) == truncate_bytes(self, encode(value))

(***************************************************************************)
(* SpecBytes: MaxBytes(max_bytes, truncate=True, prefix, suffix) is         *)
(* constructed and applied to a text.  The texts are made of code points    *)
(* that encode to one, two, three and four bytes.                           *)
(***************************************************************************)
CodePoints == {97, 233, 8364, 128512}

(* "\u0393\u03b5\u03b9\u03ac\u03c3\u03bf\u03c5 \u039a\u03cc\u03c3\u03bc\u03b5" *)
Greeting == <<915, 949, 953, 940, 963, 959, 965, 32, 922, 972, 963, 956, 949>>

GreetingBudget == 24

(* The bytes test_pass_string_truncated expects *)
TruncatedGreeting ==
  <<206, 147, 206, 181, 206, 185, 206, 172, 207, 131, 206, 191, 207, 133, 32,
    206, 154, 207, 140, 207, 131, 206, 188>>

TextsTo(n) == UNION {[1..k -> CodePoints] : k \in 0..n}

Texts == TextsTo(MaxLen) \cup {Greeting}

Affixes == TextsTo(MaxAffix)

Budgets == 1..MaxBudget \cup {GreetingBudget}

InitBytes ==
  /\ heap = <<>>
  /\ \E text \in Texts, prefix \in Affixes, suffix \in Affixes, max_bytes \in Budgets :
       last = [op |-> "MaxBytes",
               arg |-> [max_bytes |-> max_bytes, prefix |-> prefix, suffix |-> suffix],
               unit |-> 0, value |-> text, ret |-> None, exc |-> NoExc, log |-> <<>>]

(* MaxBytes(...).apply(value) *)
MaxBytesApply ==
  /\ last.op = "MaxBytes"
  /\ last' = [last EXCEPT !.op = "truncated", !.ret = MaxBytes_apply(last.arg, last.value)]
  /\ UNCHANGED heap

NextBytes == MaxBytesApply

SpecBytes == InitBytes /\ [][NextBytes]_vars

(***************************************************************************)
(* MaxBytes with an encoding that has a byte order mark                     *)
(***************************************************************************)
(* The UTF-16 code units of one code point, low byte first *)
Encode16Point(cp) ==
  IF cp < 65536 THEN <<cp % 256, cp \div 256>>
  ELSE <<(55296 + ((cp - 65536) \div 1024)) % 256,
         (55296 + ((cp - 65536) \div 1024)) \div 256,
         (56320 + ((cp - 65536) % 1024)) % 256,
         (56320 + ((cp - 65536) % 1024)) \div 256>>

RECURSIVE Units16(_)
Units16(text) ==
  IF text = <<>> THEN <<>> ELSE Encode16Point(Head(text)) \o Units16(Tail(text))

(* text.encode(encoding): 'utf-16' begins with the byte order mark *)
Encoded(encoding, text) ==
  IF encoding = "utf-16" THEN <<255, 254>> \o Units16(text) ELSE encode(text)

(* bs.decode('utf-16') raises no UnicodeDecodeError: bs is a whole number *)
(* of code units, and every high surrogate is followed by a low one.        *)
RECURSIVE Decodes16(_)
Decodes16(bs) ==
  IF Len(bs) < 2 THEN Len(bs) = 0
  ELSE IF bs[2] \in 216..219
  THEN Len(bs) >= 4 /\ bs[4] \in 220..223 /\ Decodes16(SubSeq(bs, 5, Len(bs)))
  ELSE bs[2] \notin 220..223 /\ Decodes16(SubSeq(bs, 3, Len(bs)))

Attempted(ret, exc, attempts) == [ret |-> ret, exc |-> exc, attempts |-> attempts]

(* A variant of the loop that chops two bytes off at a time. *)
RECURSIVE ShrinkByTwo(_, _, _, _)
ShrinkByTwo(bytes_value, encoded_suffix, target_bytes, trim) ==
  IF Decodes16(Slice(bytes_value, target_bytes - trim))
  THEN Attempted(Slice(bytes_value, target_bytes - trim) \o encoded_suffix, NoExc,
                 (trim \div 2) + 1)
  ELSE IF trim + 2 >= target_bytes
  THEN Attempted(None, Exc("ValueError", "Unable to truncate", EmptyCtx), (trim \div 2) + 1)
  ELSE ShrinkByTwo(bytes_value, encoded_suffix, target_bytes, trim + 2)

(* The `while True' loop of truncate_bytes for the other encodings, at    *)
(* its iteration with the given trim; each iteration attempts one decode.   *)
RECURSIVE Shrink(_, _, _, _)
Shrink(bytes_value, encoded_suffix, target_bytes, trim) ==
  IF Decodes16(Slice(bytes_value, target_bytes - trim))
  THEN Attempted(Slice(bytes_value, target_bytes - trim) \o encoded_suffix, NoExc, trim + 1)
  ELSE IF trim + 1 >= target_bytes
  THEN Attempted(None, Exc("ValueError", "Unable to truncate", EmptyCtx), trim + 1)
  ELSE Shrink(bytes_value, encoded_suffix, target_bytes, trim + 1)

(* bytes_value with the prefix put behind the byte order mark *)
Prefixed(self, bytes_value, n) ==
  IF self.prefix # <<>>
  THEN Slice(bytes_value, n) \o From(Encoded(self.encoding, self.prefix), n)
       \o From(bytes_value, n)
  ELSE bytes_value

(* The suffix without byte order mark *)
EncodedSuffix(self, n) ==
  IF self.suffix # <<>> THEN From(Encoded(self.encoding, self.suffix), n) ELSE <<>>

(* truncate_bytes from `target_bytes < 1' on *)
TruncatedIn(encoding, bytes_value, encoded_suffix, target_bytes) ==
  IF target_bytes < 1 THEN Attempted(<<>>, NoExc, 0)
  ELSE IF encoding = "utf-8"
  THEN Attempted(Walk(Slice(bytes_value, target_bytes), 1) \o encoded_suffix, NoExc, 0)
  ELSE Shrink(bytes_value, encoded_suffix, target_bytes, 0)

(* MaxBytes.truncate_bytes for self.encoding *)
truncate_bytes_in(self, bytes_value) ==
  IF Len(bytes_value) <= self.max_bytes THEN Attempted(bytes_value, NoExc, 0)
  ELSE TruncatedIn(self.encoding,
                   Prefixed(self, bytes_value, Len(Encoded(self.encoding, <<>>))),
                   EncodedSuffix(self, Len(Encoded(self.encoding, <<>>))),
                   self.max_bytes
                     - Len(EncodedSuffix(self, Len(Encoded(self.encoding, <<>>)))))

(* BaseFilter.apply of a MaxBytes with truncate=True after _apply ended   *)
(* with r: an exception is reported as an invalid value with the code       *)
(* 'exception', whatever the handler does with the report.                  *)
MaxBytesTried(r) ==
  IF r.exc # NoExc THEN [r EXCEPT !.ret = None] @@ [log |-> <<CODE_EXCEPTION>>]
  ELSE r @@ [log |-> <<>>]

(***************************************************************************)
(* SpecEncodings: MaxBytes(max_bytes, truncate=True, prefix, suffix,        *)
(* encoding) is constructed and applied to a text.                          *)
(***************************************************************************)
Encodings == {"utf-8", "utf-16"}

InitEncodings ==
  /\ heap = <<>>
  /\ \E text \in TextsTo(MaxLen), prefix \in Affixes, suffix \in Affixes,
        max_bytes \in 1..MaxBudget, encoding \in Encodings :
       last = [op |-> "MaxBytes",
               arg |-> [max_bytes |-> max_bytes, prefix |-> prefix, suffix |-> suffix,
                        encoding |-> encoding],
               unit |-> 0, value |-> text, ret |-> None, exc |-> NoExc, log |-> <<>>,
               attempts |-> 0]

(* MaxBytes(...).apply(value) ended with r. *)
EncodingApplied(r) ==
  /\ last' = [last EXCEPT !.op = "applied", !.ret = r.ret, !.exc = r.exc,
                          !.log = r.log, !.attempts = r.attempts]
  /\ UNCHANGED heap

(* MaxBytes(...).apply(value) *)
EncodingApply ==
  /\ last.op = "MaxBytes"
  /\ EncodingApplied(MaxBytesTried(
       truncate_bytes_in(last.arg, Encoded(last.arg.encoding, last.value))))

NextEncodings == EncodingApply

SpecEncodings == InitEncodings /\ [][NextEncodings]_vars

(***************************************************************************)
(* Filter macros (src/filters/macros.py)                                    *)
(***************************************************************************)
(* filter_macro(func) for a factory func that returns c: a type whose     *)
(* call (FilterMacroMeta.__call__) returns what func returns.  As a         *)
(* filter-compatible value the type is one more zero-argument callable      *)
(* around c.                                                                *)
filter_macro(c) == Wrap(c, c.depth + 1)

(* resolve ended with rr; the unit it returned is applied to value. *)
ResolvedApplied(rr, value) ==
  IF rr.exc # NoExc THEN [heap |-> rr.heap, log |-> <<>>, ret |-> None, exc |-> rr.exc]
  ELSE apply([heap |-> rr.heap, log |-> <<>>], rr.unit, value)

Outcome(r) == [ret |-> r.ret, exc |-> r.exc, log |-> r.log]

(* The macro type and, from the same state, what its factory returned     *)
(* were resolved and applied, with l and r.                                 *)
MacroProbed(c, par, k, value, l, r) ==
  /\ heap' = Collect(l.heap, Len(heap))
  /\ last' = [op |-> "macro", arg |-> Arg(0, c, par, k), unit |-> 0, value |-> value,
              ret |-> l.ret, exc |-> l.exc, log |-> l.log, direct |-> Outcome(r)]

(* BaseFilter.resolve(filter_macro(func), parent=par, key=k).apply(value)  *)
(* for a factory func that returns c                                        *)
MacroProbe(c, par, k, value) ==
  MacroProbed(c, par, k, value,
              ResolvedApplied(resolve(heap, filter_macro(c), par, k), value),
              ResolvedApplied(resolve(heap, c, par, k), value))

(***************************************************************************)
(* SpecMacro: a program that constructs units and chains, gives them a      *)
(* returning handler, and resolves and applies macro types whose factories  *)
(* return a unit, a chain, a filter class, None, a callable or a value that *)
(* is not filter-compatible.                                                *)
(***************************************************************************)
MacroKinds == {<<"NoOp", "">>, <<"NotEmpty", "allow_none">>}

MacroValues == {None, "", "a"}

FactoryResults == {Wrap(b, n) : b \in BaseCands, n \in 0..1}

Defining == last.op # "macro"

NextMacro ==
  \/ \E k \in MacroKinds : Defining /\ Construct(k) /\ Fits
  \/ \E u \in Units : Defining /\ NewChain(CUnit(u)) /\ Fits
  \/ \E u \in Units : Defining /\ set_handler(u, "sub")
  \/ \E c \in FactoryResults, par \in {0} \cup Units, k \in Keys, v \in MacroValues :
       Defining /\ MacroProbe(c, par, k, v)

SpecMacro == Init /\ [][NextMacro]_vars

(***************************************************************************)
(* SpecDelegate: a program that constructs units and chains, gives them     *)
(* handlers and keys, and then calls u._filter(value, child, sub_key) for   *)
(* one unit u and children of its choice in the order of their            *)
(* construction, as the _apply of a composite unit does.                    *)
(***************************************************************************)
(* u._filter(value, child, sub_key=sk) ended with r. *)
Delegated(u, child, sk, value, r) ==
  /\ heap' = r.heap
  /\ last' = Obs("filter", Arg(u, CUnit(child), 0, sk), u, value, r.ret, r.exc, r.log)

(* u._filter(value, child, sub_key=sk) *)
FilterCall(u, child, sk, value) ==
  Delegated(u, child, sk, value,
            _filter([heap |-> heap, log |-> <<>>], u, value, CUnit(child), sk))

Arranging == last.op # "filter"

SubKeys == {None, "", "s"}

DelegateValues == {"", "a"}

NextDelegate ==
  \/ Arranging /\ Construct(<<"NotEmpty", "allow_none">>) /\ Fits
  \/ \E u \in Units : Arranging /\ NewChain(CUnit(u)) /\ Fits
  \/ \E u \in Units : Arranging /\ set_handler(u, "sub")
  \/ \E u \in Units : Arranging /\ heap[u]._key = None /\ SetKeyOp(u, "p")
  \/ \E u \in Units, child \in Units, sk \in SubKeys, v \in DelegateValues :
       /\ Arranging \/ (u = last.unit /\ child >= last.arg.cand.id)
       /\ FilterCall(u, child, sk, v)

SpecDelegate == Init /\ [][NextDelegate]_vars

(***************************************************************************)
(* Properties of FilterChain.apply                                          *)
(***************************************************************************)
Log == last.log

Applied == last.op = "apply"

IsEv(i, ev) == Log[i].ev = ev

(* Event j belongs to the same run of the loop of a chain as event i. *)
SameLoop(i, j) == Log[j].unit = Log[i].unit /\ Log[j].call = Log[i].call

(* C1: once the chain's own flag is true after the unit at position i    *)
(* was delegated to, whether that ended by return or by an exception, the  *)
(* same apply call of the chain delegates to no further unit.              *)
C1_StopsOnceFlagged ==
  Applied =>
    \A i, j \in DOMAIN Log :
      (i < j /\ IsEv(i, "iter") /\ Log[i].flag /\ IsEv(j, "delegate"))
        => ~SameLoop(i, j)

(* A chain whose flag became true at a position that is not its last. *)
C1_Witness ==
  /\ Applied
  /\ \E i \in DOMAIN Log :
       /\ IsEv(i, "iter") /\ Log[i].flag /\ ~Log[i].raised
       /\ Log[i].idx < Len(heap[Log[i].unit]._filters)

(* C2: after the first unit of a chain during whose application an       *)
(* invalid value was reported to a handler, the chain applies no later     *)
(* unit.                                                                    *)
C2_StopsAtFirstReport ==
  Applied =>
    \A i, j, m \in DOMAIN Log :
      (i < j /\ j < m /\ IsEv(i, "delegate") /\ IsEv(j, "report")
         /\ IsEv(m, "delegate"))
        => ~SameLoop(i, m)

(***************************************************************************)
(* Properties of BaseFilter.resolve                                         *)
(***************************************************************************)
ResolveDone == last.op = "resolve"

C4_ParentKeyAttached ==
  (ResolveDone /\ last.exc = NoExc) =>
    /\ last.arg.parent # 0 => heap[last.unit]._parent = last.arg.parent
    /\ last.arg.key \notin {None, ""} => heap[last.unit]._key = last.arg.key

(***************************************************************************)
(* Properties of FilterChain.__or__                                         *)
(***************************************************************************)
(* C5: c | next, for a chain c, returns a new chain that holds the units  *)
(* of c followed by the resolved next unit, and the unit sequence, the     *)
(* handler, the key and the parent of c are after the operation what they  *)
(* were before it.                                                          *)
C5_OriginalUntouched ==
  [][(last'.op = "or" /\ last'.exc = NoExc /\ last' # last
        /\ heap[last'.arg.unit].kind = "FilterChain")
       => LET c == last'.arg.unit IN
          /\ last'.unit # c
          /\ Len(heap'[last'.unit]._filters) = Len(heap[c]._filters) + 1
          /\ SubSeq(heap'[last'.unit]._filters, 1, Len(heap[c]._filters))
               = heap[c]._filters
          /\ (last'.arg.cand.tag = "unit" /\ last'.arg.cand.depth = 0)
               => heap'[last'.unit]._filters[Len(heap[c]._filters) + 1]
                    = last'.arg.cand.id
          /\ heap'[c]._filters = heap[c]._filters
          /\ heap'[c]._handler = heap[c]._handler
          /\ heap'[c]._key = heap[c]._key
          /\ heap'[c]._parent = heap[c]._parent]_vars

(***************************************************************************)
(* Properties of chaining                                                   *)
(***************************************************************************)
ProbeDone == last.op = "probe"

(* C6: applied to the same value under the same handler, (a | b) | c and *)
(* a | (b | c) apply the same units that are no chains to the same values  *)
(* in the same order, return the same value or raise the same exception,   *)
(* and have the same reports collected by the same handlers.               *)
C6_Associative == ProbeDone => last.left = last.right

(***************************************************************************)
(* Properties of BaseFilter.apply                                           *)
(***************************************************************************)
FreshHeap(h) == [u \in DOMAIN h |-> [h[u] EXCEPT !._has_errors = FALSE]]

NoReports(log) == \A i \in DOMAIN log : log[i].ev # "report"

(* C8: whatever flags earlier apply calls left behind, an apply on an    *)
(* input that is valid (on which the unit with all flags cleared reports   *)
(* nothing and raises nothing) returns what it returns with all flags      *)
(* cleared, reports nothing, and ends with the flag of the unit false.     *)
C8_FlagCallScoped ==
  Applied =>
    LET f == apply([heap |-> FreshHeap(heap), log |-> <<>>], last.unit, last.value)
    IN (NoReports(f.log) /\ f.exc = NoExc)
         => /\ last.ret = f.ret
            /\ last.exc = NoExc
            /\ NoReports(Log)
            /\ ~heap[last.unit]._has_errors

(* A chain of two units or more that an earlier call left flagged is      *)
(* applied to a valid input.                                                *)
C8_Witness ==
  /\ Applied
  /\ heap[last.unit].kind = "FilterChain"
  /\ Len(heap[last.unit]._filters) >= 2
  /\ Log[1].stale
  /\ NoReports(Log)
  /\ last.exc = NoExc
  /\ last.ret = "A"

(* C7: applied to any value, None included, a chain that holds no unit   *)
(* returns the value, makes no report, raises nothing and ends with its    *)
(* flag false, which is what a NoOp unit does with the value.              *)
C7_EmptyChainIsNoOp ==
  (Applied /\ heap[last.unit].kind = "FilterChain" /\ heap[last.unit]._filters = <<>>) =>
    LET n == apply([heap |-> Append(heap, NewUnit("NoOp", "")), log |-> <<>>],
                   Len(heap) + 1, last.value)
    IN /\ last.ret = last.value
       /\ last.exc = NoExc
       /\ NoReports(Log)
       /\ ~heap[last.unit]._has_errors
       /\ last.ret = n.ret
       /\ last.exc = n.exc
       /\ NoReports(n.log)
       /\ ~n.heap[Len(heap) + 1]._has_errors

(* A chain without units, under a collecting handler, was applied to a    *)
(* value that is not None.                                                  *)
C7_Witness ==
  /\ Applied
  /\ heap[last.unit].kind = "FilterChain"
  /\ heap[last.unit]._filters = <<>>
  /\ heap[last.unit]._handler = "mem"
  /\ last.value = ""

(* The apply call logged as event i is one whose _apply raises an        *)
(* exception that is no FilterError.                                        *)
Escapes(i) ==
  /\ IsEv(i, "apply") /\ Log[i].value # None
  /\ heap[Log[i].unit].kind = "BaseFilter"

(* Report j is the report of the exception that escaped in call i. *)
ReportsEscape(i, j) ==
  /\ IsEv(j, "report") /\ j = i + 1
  /\ Log[j].unit = Log[i].unit
  /\ Log[j].reason = "NotImplementedError"
  /\ Log[j].context.code = CODE_EXCEPTION
  /\ Log[j].context.exc = <<"NotImplementedError", "Not implemented">>
  /\ Log[j].context.value = Log[i].value

(* C9: where the handler in effect returns, an exception other than a    *)
(* FilterError that escapes a unit's _apply makes exactly one report with  *)
(* code "exception" and the summary of the exception, leaves the flag of   *)
(* the unit set, and the caller of apply sees no exception.                *)
C9_ExceptionReported ==
  (Applied /\ handler(heap, last.unit) \in {"mem", "sub"}) =>
    /\ last.exc = NoExc
    /\ \A i \in DOMAIN Log :
         Escapes(i) =>
           /\ i + 1 \in DOMAIN Log /\ ReportsEscape(i, i + 1)
           /\ \A j \in DOMAIN Log :
                (IsEv(j, "report") /\ Log[j].reason = "NotImplementedError") => j = i + 1
           /\ heap[Log[i].unit]._has_errors

(***************************************************************************)
(* Properties of BaseFilter._invalid_value                                  *)
(***************************************************************************)
(* The event before event j, the returns of chain loops left out. *)
RECURSIVE Before(_)
Before(j) ==
  IF j = 1 THEN 0
  ELSE IF Log[j - 1].ev = "iter" THEN Before(j - 1)
  ELSE j - 1

(* Report j is made for the FilterError that the handler raised for the  *)
(* report before it.                                                        *)
IsForward(j) == IsEv(j, "report") /\ Before(j) > 0 /\ IsEv(Before(j), "report")

(* Report j is made by a Call unit for the FilterError its callable       *)
(* raised.                                                                  *)
IsCustom(j) ==
  /\ IsEv(j, "report") /\ Before(j) > 0 /\ IsEv(Before(j), "apply")
  /\ Log[Before(j)].unit = Log[j].unit
  /\ heap[Log[j].unit].kind = "Call"
  /\ callable(Log[Before(j)].value).exc.type = "FilterError"

(* C10: a report made for a FilterError reason carries the message and   *)
(* the context of that error: where the error was raised by a handler for  *)
(* an earlier report, the message and context of that report, so that the  *)
(* value, filter, key and code are at every depth those of the unit that   *)
(* reported first; where it was raised by the callable of a Call unit, the *)
(* message and context the callable gave it.  A FilterError that reaches   *)
(* the caller of apply carries them as well.                                *)
C10_FilterErrorForwarded ==
  Applied =>
    /\ \A j \in DOMAIN Log :
         IsForward(j) =>
           /\ Log[Before(j)].handler = "raise"
           /\ Log[j].reason = "FilterError"
           /\ Log[j].message = Log[Before(j)].message
           /\ Log[j].context = Log[Before(j)].context
    /\ \A j \in DOMAIN Log :
         IsCustom(j) =>
           /\ Log[j].reason = "FilterError"
           /\ Log[j].message = callable(Log[Before(j)].value).exc.msg
           /\ Log[j].context = callable(Log[Before(j)].value).exc.context
    /\ \A j \in DOMAIN Log :
         (IsEv(j, "report") /\ ~IsForward(j) /\ ~IsCustom(j))
           => /\ Log[j].reason # "FilterError"
              /\ Log[j].context.filter = Str(heap, Log[j].unit)
    /\ last.exc.type = "FilterError"
         => \E j \in DOMAIN Log :
              /\ IsEv(j, "report")
              /\ \A m \in DOMAIN Log : m > j => ~IsEv(m, "report")
              /\ last.exc.msg = Log[j].message
              /\ last.exc.context = Log[j].context

(* The report of a unit nested two chains deep reaches the caller through  *)
(* both chains.                                                             *)
C10_Witness ==
  /\ Applied
  /\ last.exc.type = "FilterError"
  /\ last.exc.context.code = "empty"
  /\ \E i, j \in DOMAIN Log :
       /\ i < j /\ IsForward(i) /\ IsForward(j)
       /\ Log[i].unit # Log[j].unit
       /\ heap[Log[i].unit].kind = "FilterChain"
       /\ heap[Log[j].unit].kind = "FilterChain"
       /\ Log[j].context.filter = "NotEmpty(allow_none=True)"

(* C11: where a unit that is no chain rejects a value for an error code  *)
(* or an exception that is no FilterError and the handler in effect         *)
(* returns, the value that _invalid_value returns, which is what apply      *)
(* returns for such a unit, is the value the handler returned.              *)
C11_HandlerValueReturned ==
  (Applied /\ heap[last.unit].kind # "FilterChain" /\ last.exc = NoExc) =>
    \A j \in DOMAIN Log :
      (IsEv(j, "report") /\ Log[j].unit = last.unit /\ Log[j].reason # "FilterError")
        => last.ret = HandlerRet(Log[j].handler)

(***************************************************************************)
(* Properties of key paths                                                  *)
(***************************************************************************)
(* The unit i parent links above u. *)
RECURSIVE Up(_, _)
Up(u, i) == IF i = 0 THEN u ELSE Up(heap[u]._parent, i - 1)

(* The number of parent links from u to the root of its tree. *)
RECURSIVE Height(_)
Height(u) == IF heap[u]._parent = 0 THEN 0 ELSE 1 + Height(heap[u]._parent)

Rooted(u) == ~Cyclic(heap, u, {})

(* The stored keys on the path from the root down to u. *)
Segments(u) == [i \in 1..(Height(u) + 1) |-> heap[Up(u, Height(u) + 1 - i)]._key]

RECURSIVE Dotted(_)
Dotted(segs) ==
  IF segs = <<>> THEN ""
  ELSE IF Len(segs) = 1 THEN segs[1]
  ELSE Dotted(SubSeq(segs, 1, Len(segs) - 1)) \o "." \o segs[Len(segs)]

KeyPath(u) == Dotted(SelectSeq(Segments(u), LAMBDA k : k \notin {None, ""}))

(* C12: in every state, whatever keys were set and whatever was composed *)
(* since the last read, the key of a unit whose parents lead to a root is   *)
(* the stored keys on the path from the root down to the unit, without the  *)
(* null and the empty ones, joined with "."; the FilterError that a         *)
(* NotEmpty unit raises carries that key.                                   *)
C12_KeyPathRootFirst ==
  /\ \A u \in Units : Rooted(u) => key(heap, u) = KeyPath(u)
  /\ (Applied /\ heap[last.unit].kind = "NotEmpty" /\ last.exc.type = "FilterError")
       => last.exc.context.key = KeyPath(last.unit)

(* A unit two levels below the root, under a chain with the empty key,    *)
(* reports under the root's key and its own.                                *)
C12_Witness ==
  /\ Applied /\ last.exc.type = "FilterError"
  /\ heap[last.unit].kind = "NotEmpty"
  /\ Rooted(last.unit) /\ Height(last.unit) = 2
  /\ Segments(last.unit) = <<"p", "", "q">>
  /\ last.exc.context.key = "p.q"

(* The key path with one more segment. *)
Extended(path, seg) == IF path = "" THEN seg ELSE path \o "." \o seg

(* Report j of the apply call that ends in the next state is made by the  *)
(* Item unit u of the program for a reason of its own.                      *)
ItemReports(j, u) ==
  /\ last'.log[j].ev = "report"
  /\ last'.log[j].unit = u
  /\ heap[u].kind = "Item"
  /\ last'.log[j].reason # "FilterError"

(* C13: an apply call changes the stored key of no unit; the report that  *)
(* an Item unit makes for a missing key, which it makes with the key as     *)
(* sub-key, carries the unit's key path with that one segment more, and     *)
(* the report the same unit makes without a sub-key (for an exception of    *)
(* its _apply), in the same state or after any number of earlier sub-keyed  *)
(* reports, carries the key path of the unit and no more.                   *)
C13_SubKeyTransient ==
  [][(last'.op = "apply" /\ <<heap, last>>' # <<heap, last>>) =>
       /\ \A u \in DOMAIN heap : heap'[u]._key = heap[u]._key
       /\ \A j \in DOMAIN last'.log, u \in DOMAIN heap :
            (ItemReports(j, u) /\ Rooted(u)')
              => last'.log[j].context.key =
                   IF last'.log[j].context.code = "missing"
                   THEN Extended(KeyPath(u)', heap[u].arg)
                   ELSE KeyPath(u)']_vars

(* An Item unit with the key "q" in a chain with the key "p" reported a   *)
(* missing key under "p.q.t" and has the key "q" as before.                 *)
C13_Witness ==
  /\ Applied /\ last.exc.type = "FilterError"
  /\ heap[last.unit].kind = "Item"
  /\ last.exc.context.code = "missing"
  /\ last.exc.context.key = "p.q.t"
  /\ heap[last.unit]._key = "q"
  /\ KeyPath(last.unit) = "p.q"

(***************************************************************************)
(* Properties of handler resolution                                         *)
(***************************************************************************)
(* The distances from u to the units at or above it that have a handler  *)
(* of their own.                                                            *)
WithHandler(u) == {i \in 0..Height(u) : heap[Up(u, i)]._handler # NoHandler}

(* The handler of the nearest of them, or the default handler, which      *)
(* raises.                                                                  *)
Nearest(u) ==
  IF WithHandler(u) = {} THEN "raise"
  ELSE heap[Up(u, CHOOSE i \in WithHandler(u) : \A m \in WithHandler(u) : i <= m)]._handler

(* Report j of the apply call that ends in the next state is made by the  *)
(* unit applied, u, which is no chain, for a reason of its own.             *)
OwnReport(j, u) ==
  /\ last'.unit = u
  /\ heap[u].kind # "FilterChain"
  /\ last'.log[j].ev = "report"
  /\ last'.log[j].unit = u
  /\ last'.log[j].reason # "FilterError"

(* C14: in every state the handler of a unit whose parents lead to a     *)
(* root is its own where it has one, else that of the nearest unit above    *)
(* it that has one, else the default handler; a unit applied reports to     *)
(* that handler, and where it is the default one apply raises a FilterError *)
(* with the message and the context of the report; no apply call changes    *)
(* the handler stored on any unit.                                          *)
C14_HandlerResolution ==
  [][/\ \A u \in DOMAIN heap' : Rooted(u)' => handler(heap', u) = Nearest(u)'
     /\ last'.op = "apply" =>
          /\ \A u \in DOMAIN heap : heap'[u]._handler = heap[u]._handler
          /\ \A j \in DOMAIN last'.log, u \in DOMAIN heap :
               (OwnReport(j, u) /\ Rooted(u)') =>
                 /\ last'.log[j].handler = Nearest(u)'
                 /\ WithHandler(u)' = {} =>
                      /\ last'.exc.type = "FilterError"
                      /\ last'.exc.msg = last'.log[j].message
                      /\ last'.exc.context = last'.log[j].context]_vars

(* A unit without a handler, in a chain without one, in a chain with a    *)
(* returning handler, reported to that handler.                             *)
C14_Witness ==
  /\ Applied /\ heap[last.unit].kind = "NotEmpty"
  /\ Height(last.unit) = 2
  /\ WithHandler(last.unit) = {2}
  /\ \E j \in DOMAIN Log : IsEv(j, "report") /\ Log[j].unit = last.unit
                             /\ Log[j].handler = "sub"
  /\ heap[last.unit]._handler = NoHandler

(***************************************************************************)
(* Properties of None handling                                              *)
(***************************************************************************)
(* C15: apply(None) on a unit that has the _apply_none of BaseFilter     *)
(* (here a unit whose _apply raises) returns None, raises nothing, reports  *)
(* nothing and leaves the flag false, whatever flag an earlier call left;   *)
(* and in every apply call, of a chain too, the _apply of such a unit runs  *)
(* (and raises) only in an apply of that unit to a value that is not None.  *)
C15_NonePassesThrough ==
  Applied =>
    /\ (last.value = None /\ heap[last.unit].kind = "BaseFilter") =>
         /\ last.ret = None
         /\ last.exc = NoExc
         /\ NoReports(Log)
         /\ ~heap[last.unit]._has_errors
    /\ \A j \in DOMAIN Log :
         (IsEv(j, "report") /\ Log[j].reason = "NotImplementedError") =>
           /\ j > 1 /\ IsEv(j - 1, "apply")
           /\ Log[j - 1].unit = Log[j].unit
           /\ Log[j - 1].value # None

(* A unit whose _apply raises, flagged by an earlier call, is applied to  *)
(* None.                                                                    *)
C15_Witness ==
  /\ Applied /\ last.value = None
  /\ heap[last.unit].kind = "BaseFilter"
  /\ Log[1].stale
  /\ last.exc = NoExc

(***************************************************************************)
(* Properties of the composition tree                                       *)
(***************************************************************************)
(* C16: an apply call or a `|` composition changes the parent of no unit *)
(* that has one, and in every state the parent references from every unit   *)
(* end at a unit without parent.                                            *)
C16_ParentsFixedAcyclic ==
  [][/\ last'.op \in {"apply", "or"} =>
          \A u \in DOMAIN heap :
            heap[u]._parent # 0 => heap'[u]._parent = heap[u]._parent
     /\ \A u \in DOMAIN heap' : Rooted(u)']_vars

(* C17: a unit that is no chain and has no handler of its own, applied   *)
(* on its own to a value it rejects, whatever chains it was composed into   *)
(* before, reports to the default handler, so that apply raises the         *)
(* FilterError, under the key path that consists of its own key.            *)
C17_StandaloneAfterComposition ==
  (Applied /\ heap[last.unit].kind # "FilterChain"
     /\ heap[last.unit]._handler = NoHandler
     /\ \E j \in DOMAIN Log : IsEv(j, "report"))
    => /\ \A j \in DOMAIN Log : IsEv(j, "report") => Log[j].handler = "raise"
       /\ last.exc.type = "FilterError"
       /\ last.exc.context.key = _make_key(<<heap[last.unit]._key>>)

(***************************************************************************)
(* Properties of BaseFilter._filter                                         *)
(***************************************************************************)
(* The step is a call u._filter(value, c, sub_key=sk) that leaves the     *)
(* parents of c leading to a root.                                          *)
Delegates(u, c, sk) ==
  /\ last'.op = "filter" /\ <<heap, last>>' # <<heap, last>>
  /\ last'.arg.unit = u /\ last'.arg.cand.id = c /\ last'.arg.key = sk
  /\ Rooted(c)'

MacroDone == last.op = "macro"

(* The factory returns a no-op filter: a NoOp instance, the NoOp class or *)
(* None, which resolves to a NoOp.                                          *)
ReturnsNoOp(c) ==
  \/ c.tag = "none"
  \/ c.tag = "class" /\ c.kind[1] = "NoOp"
  \/ c.tag = "unit" /\ heap[c.id].kind = "NoOp"

(* C19: a macro type resolved with a parent and a key and applied to a   *)
(* value returns the value, raises the exception and makes the reports      *)
(* that the result of its factory does when it is resolved with the same    *)
(* parent and key and applied to the value; where the factory returns a     *)
(* no-op filter, the value is returned unchanged, nothing is raised and     *)
(* nothing is reported.                                                     *)
C19_MacroResolves ==
  MacroDone =>
    /\ Outcome(last) = last.direct
    /\ ReturnsNoOp(last.arg.cand) =>
         /\ last.exc = NoExc
         /\ last.ret = last.value
         /\ NoReports(last.log)

(* A macro whose factory returns the NoOp class, resolved under a parent  *)
(* with a key and applied to a value that is not None.                      *)
C19_Witness ==
  /\ MacroDone
  /\ last.arg.cand = CClass(<<"NoOp", "">>)
  /\ last.arg.parent # 0 /\ last.arg.key = "k"
  /\ last.value = "a" /\ last.ret = "a" /\ last.exc = NoExc

(***************************************************************************)
(* Properties of MaxBytes.truncate_bytes                                    *)
(***************************************************************************)
(* The number of bytes of the sequence a first byte announces; 0 for a    *)
(* byte that begins none.                                                   *)
Announced(o) ==
  IF o < 128 THEN 1 ELSE IF o < 192 THEN 0 ELSE IF o < 224 THEN 2
  ELSE IF o < 240 THEN 3 ELSE IF o < 248 THEN 4 ELSE 0

(* bs is a concatenation of complete sequences. *)
RECURSIVE ValidUtf8(_)
ValidUtf8(bs) ==
  \/ bs = <<>>
  \/ /\ Announced(bs[1]) \in 1..Len(bs)
     /\ \A j \in 2..Announced(bs[1]) : bs[j] \in 128..191
     /\ ValidUtf8(SubSeq(bs, Announced(bs[1]) + 1, Len(bs)))

TruncateDone == last.op = "truncated"

(* C20: for every text, prefix, suffix and budget of at least 1, the     *)
(* bytes MaxBytes returns with truncate enabled and the encoding UTF-8 are  *)
(* at most the budget and a concatenation of complete UTF-8 sequences; the  *)
(* 25 bytes of the greeting come back as 23 bytes for the budget 24.        *)
C20_TruncationSafe ==
  TruncateDone =>
    /\ Len(last.ret) <= last.arg.max_bytes
    /\ ValidUtf8(last.ret)
    /\ (/\ last.value = Greeting /\ last.arg.max_bytes = GreetingBudget
        /\ last.arg.prefix = <<>> /\ last.arg.suffix = <<>>)
         => /\ Len(encode(Greeting)) = 25
            /\ last.ret = TruncatedGreeting
            /\ Len(last.ret) = 23

(* The cut falls inside a sequence of a text that is preceded by a prefix *)
(* and followed by a suffix of several bytes each.                          *)
C20_Witness ==
  /\ TruncateDone
  /\ Len(encode(last.arg.prefix)) > 1 /\ Len(encode(last.arg.suffix)) > 1
  /\ Len(encode(last.value)) > last.arg.max_bytes
  /\ Len(last.ret) < last.arg.max_bytes
  /\ Len(last.ret) > Len(encode(last.arg.prefix)) + Len(encode(last.arg.suffix))

(* The last Len(t) bytes of bs are t. *)
EndsWith(bs, t) ==
  Len(t) <= Len(bs) /\ SubSeq(bs, Len(bs) - Len(t) + 1, Len(bs)) = t

(* The value is longer than the budget, which holds the whole suffix. *)
SuffixFits ==
  /\ TruncateDone
  /\ Len(encode(last.value)) > last.arg.max_bytes
  /\ Len(encode(last.arg.suffix)) <= last.arg.max_bytes

(* C21: where a value must be truncated under a budget that holds the     *)
(* suffix, the result ends with the whole suffix; it is the suffix alone    *)
(* where there is no prefix and the budget does not hold the suffix and     *)
(* the first code point of the value.                                       *)
C21_SuffixPriority ==
  SuffixFits =>
    /\ EndsWith(last.ret, encode(last.arg.suffix))
    /\ (/\ last.arg.prefix = <<>>
        /\ last.arg.max_bytes
             < Len(encode(last.arg.suffix)) + Len(EncodePoint(last.value[1])))
         => last.ret = encode(last.arg.suffix)

(***************************************************************************)
(* Properties of MaxBytes with other encodings                              *)
(***************************************************************************)
(* What the loop works on, for the call that last describes *)
LoopInput == Prefixed(last.arg, Encoded(last.arg.encoding, last.value), 2)

LoopSuffix == EncodedSuffix(last.arg, 2)

LoopTarget == last.arg.max_bytes - Len(LoopSuffix)

(* The call reached the loop for the other encodings. *)
Looped ==
  /\ last.op = "applied" /\ last.arg.encoding = "utf-16"
  /\ Len(Encoded(last.arg.encoding, last.value)) > last.arg.max_bytes
  /\ LoopTarget >= 1

(* C25: for UTF-16 the loop ends after at most target_bytes decode        *)
(* attempts, the k-th of them on the first target_bytes - (k - 1) bytes; it *)
(* returns the first candidate that decodes, followed by the suffix, and    *)
(* raises ValueError after target_bytes attempts where none decodes.        *)
C25_ShrinkTerminates ==
  Looped =>
    /\ last.attempts \in 1..LoopTarget
    /\ \A k \in 1..(last.attempts - 1) : ~Decodes16(Slice(LoopInput, LoopTarget - (k - 1)))
    /\ last.exc = NoExc =>
         /\ Decodes16(Slice(LoopInput, LoopTarget - (last.attempts - 1)))
         /\ last.ret = Slice(LoopInput, LoopTarget - (last.attempts - 1)) \o LoopSuffix
    /\ last.exc # NoExc =>
         /\ last.exc.type = "ValueError"
         /\ last.attempts = LoopTarget
         /\ ~Decodes16(Slice(LoopInput, 1))

(* The loop returns at its third attempt: the cut fell behind the first   *)
(* byte of the second unit of a surrogate pair.                             *)
C25_Witness ==
  /\ Looped
  /\ last.exc = NoExc
  /\ last.attempts = 3
  /\ Len(last.ret) > 2 + Len(LoopSuffix)

(* C26: applied to a text, MaxBytes with truncate enabled reports no      *)
(* invalid value and returns at most max_bytes bytes.                       *)
C26_TruncateAlwaysValid ==
  last.op = "applied" =>
    /\ last.log = <<>>
    /\ last.exc = NoExc
    /\ Len(last.ret) <= last.arg.max_bytes

(***************************************************************************)
(* Properties of Pick                                                       *)
(***************************************************************************)
(* The reports of the last call that carry the code 'missing' *)
MissingReports ==
  SelectSeq(Log, LAMBDA e : e.ev = "report" /\ e.reason = "code"
                             /\ e.context.code = "missing")

(* The sub-keys of the requested keys that the value lacks, in the order  *)
(* of the request.                                                          *)
Lacking ==
  [i \in DOMAIN SelectSeq(heap[last.unit].arg.keys,
                          LAMBDA k : ~Holds(heap, last.unit, last.value, k)) |->
     IF heap[last.unit].arg.indexed
     THEN StrInt(SelectSeq(heap[last.unit].arg.keys,
                           LAMBDA k : ~Holds(heap, last.unit, last.value, k))[i])
     ELSE SelectSeq(heap[last.unit].arg.keys,
                    LAMBDA k : ~Holds(heap, last.unit, last.value, k))[i]]

(* A Pick that allows no missing keys was applied to a mapping or a       *)
(* sequence under a collecting handler.                                     *)
PickCollected ==
  /\ Applied
  /\ heap[last.unit].kind = "Pick"
  /\ ~heap[last.unit].arg.allow_missing_keys
  /\ last.value # "int"
  /\ Nearest(last.unit) = "mem"

(* C22: a Pick that allows no missing keys, applied under a collecting    *)
(* handler, reports each requested key that the value lacks once, in the    *)
(* order of the request, under its key path extended by that key, reports   *)
(* nothing else, raises nothing and returns the copy with every requested   *)
(* key, None for those that the value lacks.                                *)
C22_PickReportsEachMissing ==
  PickCollected =>
    /\ last.exc = NoExc
    /\ Len(MissingReports) = Len(Lacking)
    /\ \A j \in DOMAIN MissingReports :
         /\ MissingReports[j].unit = last.unit
         /\ MissingReports[j].handler = "mem"
         /\ MissingReports[j].context.key = Extended(KeyPath(last.unit), Lacking[j])
    /\ Len(SelectSeq(Log, LAMBDA e : e.ev = "report")) = Len(Lacking)
    /\ heap[last.unit]._has_errors = (Lacking # <<>>)
    /\ last.ret = IF heap[last.unit].arg.indexed
                  THEN selective_copy_sequence(Sequence(last.value),
                                               heap[last.unit].arg.keys)
                  ELSE selective_copy_mapping(Mapping(last.value),
                                              heap[last.unit].arg.keys)
    /\ DOMAIN last.ret = IF heap[last.unit].arg.indexed THEN 1..3 ELSE {"a", "b", "c"}
    /\ \A j \in DOMAIN heap[last.unit].arg.keys :
         ~Holds(heap, last.unit, last.value, heap[last.unit].arg.keys[j])
           => last.ret[IF heap[last.unit].arg.indexed THEN j
                       ELSE heap[last.unit].arg.keys[j]] = None

(* A keyed Pick under a chain with the handler is applied to {'a': 'x'},  *)
(* which lacks two of the three keys.                                       *)
C22_Witness ==
  /\ PickCollected
  /\ ~heap[last.unit].arg.indexed
  /\ last.value = "{a}"
  /\ heap[last.unit]._handler = NoHandler
  /\ Len(MissingReports) = 2
  /\ MissingReports[1].context.key = "p.b"
  /\ MissingReports[2].context.key = "p.c"
  /\ last.ret["a"] = "x" /\ last.ret["b"] = None


(***************************************************************************)
(* Properties of a chain whose unit rejects its input                       *)
(***************************************************************************)
Reports == {i \in DOMAIN Log : IsEv(i, "report")}

(* A chain was applied, nothing was raised to the caller, and every       *)
(* invalid value of the call was reported to the collecting handler.       *)
ChainCollected ==
  /\ Applied /\ last.exc = NoExc
  /\ heap[last.unit].kind = "FilterChain"
  /\ Reports # {}
  /\ \A i \in Reports : Log[i].handler = "mem"

(* C23: when a unit of a chain rejects its input under the collecting    *)
(* handler, apply of the chain returns the replacement (None), exactly one *)
(* report is made, and the chain delegates to no unit after the report.    *)
C23_RejectionEndsChain ==
  ChainCollected =>
    /\ last.ret = None
    /\ Cardinality(Reports) = 1
    /\ \A i \in Reports, j \in DOMAIN Log :
         (i < j /\ IsEv(j, "delegate")) => Log[j].unit # last.unit


(***************************************************************************)
(* Properties of a chain applied to None                                    *)
(***************************************************************************)
Applies == {i \in DOMAIN Log : IsEv(i, "apply")}

IsRequired(u) == heap[u].kind = "NotEmpty" /\ heap[u].arg = "reject_none"

(* A chain was applied to None. *)
ChainOnNone ==
  Applied /\ last.value = None /\ heap[last.unit].kind = "FilterChain"

(* C27: a chain applied to None applies each of its units to None: a     *)
(* Required unit reached reports "empty" and the chain delegates to no     *)
(* further unit, and where no Required unit is reached the chain returns   *)
(* None and nothing is reported or raised.                                  *)
C27_NonePassesThrough ==
  ChainOnNone =>
    /\ \A i \in Applies : Log[i].value = None
    /\ \A i \in Applies :
         IsRequired(Log[i].unit) =>
           /\ \E j \in Reports :
                /\ i < j /\ Log[j].unit = Log[i].unit
                /\ Log[j].context.code = "empty"
           /\ \A m \in DOMAIN Log :
                (i < m /\ IsEv(m, "delegate")) => Log[m].unit # last.unit
    /\ (\A i \in Applies : ~IsRequired(Log[i].unit)) =>
         (Reports = {} /\ last.ret = None /\ last.exc = NoExc)


(***************************************************************************)
(* Properties of the error flag                                             *)
(***************************************************************************)
(* C28: when apply returns normally, the flag of the unit applied is     *)
(* true exactly when a handler was invoked during the call, by the unit    *)
(* or by a unit it delegated to.                                            *)
C28_FlagIffHandlerInvoked ==
  (Applied /\ last.exc = NoExc) =>
    (heap[last.unit]._has_errors <=> Reports # {})


(***************************************************************************)
(* Properties of the key path across delegations                            *)
(***************************************************************************)
(* C29: the key path of a report depends on the current delegation only: *)
(* when a child that an earlier delegation gave the sub-key "s" is          *)
(* delegated to without a sub-key, its reports carry the key path of the    *)
(* delegating unit, without the earlier sub-key.                            *)
C29_KeyPathOfCurrentDelegation ==
  [][\A u \in DOMAIN heap, c \in DOMAIN heap, sk \in {None, ""} :
       (Delegates(u, c, sk) /\ heap[c]._key = "s") =>
         \A j \in DOMAIN last'.log :
           (/\ last'.log[j].ev = "report" /\ last'.log[j].unit = c
            /\ last'.log[j].reason # "FilterError")
             => last'.log[j].context.key = KeyPath(u)']_vars


(***************************************************************************)
(* Properties of chains derived from one another                            *)
(***************************************************************************)
(* The handler a chain was given, or the default one. *)
Configured(c) == IF heap[c]._handler = NoHandler THEN "raise" ELSE heap[c]._handler

(* The unit that c2 holds after the units of c1 *)
Extra(c2) == heap[c2]._filters[Len(heap[c2]._filters)]

(* c2 is c1 | X for a chain c1 of leaf units and a unit X that c1 does    *)
(* not hold, and the collecting handler was set on c2 and on nothing else. *)
DerivedFrom(c1, c2) ==
  /\ c1 # c2
  /\ heap[c1].kind = "FilterChain" /\ heap[c2].kind = "FilterChain"
  /\ heap[c1]._filters # <<>>
  /\ heap[c2]._filters = Append(heap[c1]._filters, Extra(c2))
  /\ \A i \in DOMAIN heap[c1]._filters :
       /\ heap[c1]._filters[i] # Extra(c2)
       /\ heap[heap[c1]._filters[i]].kind # "FilterChain"
  /\ \A w \in DOMAIN heap : heap[w]._handler = (IF w = c2 THEN "mem" ELSE NoHandler)

(* C30: for c2 = c1 | X with a handler of its own on c2, in every apply  *)
(* call of a sequence on c1 and c2 the reports go to the handler of the    *)
(* chain applied, and c1 does not apply X.                                  *)
C30_DerivedChainsIndependent ==
  \A c1 \in DOMAIN heap, c2 \in DOMAIN heap :
    (Applied /\ DerivedFrom(c1, c2) /\ last.unit \in {c1, c2}) =>
      /\ \A j \in Reports : Log[j].handler = Configured(last.unit)
      /\ last.unit = c1 => \A i \in Applies : Log[i].unit # Extra(c2)


(***************************************************************************)
(* Properties of concurrent apply calls on one chain                        *)
(***************************************************************************)
(* The call of t is over. *)
Over(t) == Me(t).pc = "done"

(* The call of t ran a unit after one that rejected its value. *)
Erased(t) ==
  \E k \in Me(t).failed, n \in DOMAIN Me(t).ran : Me(t).ran[n] > k

(* The call of t left the loop before the last unit although none of the  *)
(* units it ran rejected its value.                                         *)
Stopped(t) ==
  Me(t).failed = {} /\ Len(Me(t).ran) < Len(heap[Chain]._filters)

(* C24: two apply calls on one chain are unsafe only where they          *)
(* interleave: a call that ran a unit after a failed one, and a call that   *)
(* stopped although none of its units failed, overlapped with the other     *)
(* call; both happen (C24_Witness).                                         *)
C24_RaceNeedsInterleaving ==
  \A t \in Callers : (Over(t) /\ (Erased(t) \/ Stopped(t))) => last.overlapped

(* A call ran the second unit after the first rejected its value: the     *)
(* reset of the other call erased its error.                                *)
C24_Witness ==
  \E t \in Callers :
    Over(t) /\ Erased(t) /\ Me(t).failed = {1} /\ Me(t).ran = <<1, 2>>

(* A call stopped after the first unit, which accepted its value: the      *)
(* error of the other call made it stop.                                    *)
C24_StoppedByOther ==
  \E t \in Callers :
    Over(t) /\ Stopped(t) /\ Me(t).ran = <<1>> /\ Me(t).value = "a"
====
